---- MODULE Spec2Model ----
(***************************************************************************)
(* Schedule analytics of lennyitb/subwaybook: headway tables               *)
(* (headways.py, combined_headways.py) and canonical station order         *)
(* (travel_times.py) over an immutable GTFS schedule snapshot.             *)
(*                                                                         *)
(* The schedule is the variable feed; it never changes after Init.  Every  *)
(* analysis entry point is one action that records the call in call and    *)
(* what the call returned (or the exception it raised) in result.          *)
(***************************************************************************)
EXTENDS Integers, Sequences, FiniteSets, TLC

VARIABLES feed, call, result

vars == <<feed, call, result>>

\* Python's None for string- and result-valued parameters.
None == "None"

\* Python's None for the integer parameter direction_id.
NoDirection == -1

\* Python's None in a column of minutes; a None average is the pair <<0, 0>>
\* (an average is kept as the pair <<sum, count>> of its gaps).
NoHeadway == -1

-----------------------------------------------------------------------------
(* Bounds of the model.                                                    *)

\* number of trips of a schedule of the headway specification
MaxTrips == 4

\* number of trips of a schedule of the branch specification
MaxBranchTrips == 3

\* number of trips of a schedule of the express specification
MaxExpressTrips == 3

\* number of trips of a schedule of the station-order specification
MaxOrderTrips == 3

\* number of trips of a schedule of the two-direction specification
MaxBidirectionalTrips == 3

\* number of trips of a schedule of the service-day specification
MaxServiceTrips == 3

\* number of trips of the frequent pattern of a schedule of the terminal
\* specification
MaxBlockTrips == 20

\* number of trips of a schedule of the skip-stop specification
MaxSkipStopTrips == 3

\* number of trips of a schedule of the travel-time specification
MaxMatrixTrips == 3

-----------------------------------------------------------------------------
(* Generic helpers: pandas / Python primitives.                            *)

\* The k-th smallest element of a finite set of integers.
KthSmallest(S, k) == CHOOSE x \in S : Cardinality({y \in S : y < x}) = k - 1

\* A finite set of integers as the increasing sequence of its elements.
SetToSortedSeq(S) == [k \in 1..Cardinality(S) |-> KthSmallest(S, k)]

\* DataFrame.sort_values(key): rows in ascending key order; rows of equal
\* key keep their relative order.
\* key[i] is the sort key of row s[i].
StableSortBy(s, key) ==
    LET n == Len(s)
        rank(i) == 1 + Cardinality({j \in 1..n :
                         \/ key[j] < key[i]
                         \/ key[j] = key[i] /\ j < i})
    IN  [p \in 1..n |-> s[CHOOSE i \in 1..n : rank(i) = p]]

\* Series.unique(): the distinct values of a column in order of appearance.
Unique(s) ==
    LET firsts == {i \in 1..Len(s) : \A j \in 1..(i - 1) : s[j] # s[i]}
    IN  [k \in 1..Cardinality(firsts) |-> s[KthSmallest(firsts, k)]]

\* The values of a sequence as a set.
Range(s) == {s[i] : i \in 1..Len(s)}

RECURSIVE SumSeq(_)
SumSeq(s) == IF s = <<>> THEN 0 ELSE s[1] + SumSeq(Tail(s))

MinSeq(s) == CHOOSE x \in Range(s) : \A y \in Range(s) : x <= y

MaxSeq(s) == CHOOSE x \in Range(s) : \A y \in Range(s) : x >= y

RECURSIVE FlattenSeq(_)
FlattenSeq(ss) == IF ss = <<>> THEN <<>> ELSE ss[1] \o FlattenSeq(Tail(ss))

-----------------------------------------------------------------------------
(* Clock times.  A GTFS time string "HH:MM:SS" is the triple of its three  *)
(* fields; HH may exceed 23.                                               *)

parse_gtfs_time(time_str) == <<time_str[1], time_str[2], time_str[3]>>

\* departure_seconds: un-normalized elapsed seconds.
DepartureSeconds(time_str) ==
    parse_gtfs_time(time_str)[1] * 3600
    + parse_gtfs_time(time_str)[2] * 60
    + parse_gtfs_time(time_str)[3]

\* parse_gtfs_time(x)[0] % 24: the hour-of-day bucket.
HourOfDay(time_str) == parse_gtfs_time(time_str)[1] % 24

\* headway_seconds / 60.0; every clock time of the model is a whole minute,
\* so the float quotient is this integer.
HeadwayMinutes(headway_seconds) == headway_seconds \div 60

-----------------------------------------------------------------------------
(* Schedule accessors.                                                     *)

\* feed.trips filtered by route and, when given, direction and service.
TripsOfRoute(f, route_id, direction_id, service_id) ==
    SelectSeq(f.trips, LAMBDA t :
        /\ t.route_id = route_id
        /\ direction_id = NoDirection \/ t.direction_id = direction_id
        /\ service_id = None \/ t.service_id = service_id)

\* feed.trips filtered by an exact (route, direction, service) triple.
TripsOfTriple(f, route_id, direction_id, service_id) ==
    SelectSeq(f.trips, LAMBDA t :
        /\ t.route_id = route_id
        /\ t.direction_id = direction_id
        /\ t.service_id = service_id)

\* feed.trips[trip_id.isin(ids)]
TripsWithIds(f, ids) == SelectSeq(f.trips, LAMBDA t : t.trip_id \in ids)

TripIdsOf(trips) == {trips[i].trip_id : i \in 1..Len(trips)}

\* The stop_times rows of one trip, in stop_sequence order.
StopTimeRows(t) ==
    [k \in 1..Len(t.stop_times) |->
        [trip_id        |-> t.trip_id,
         stop_id        |-> t.stop_times[k].stop_id,
         departure_time |-> t.stop_times[k].departure_time]]

\* feed.stop_times[trip_id.isin(trips.trip_id)]: the rows of the table that
\* belong to the given trips, in table order.
StopTimesOf(f, trips) ==
    FlattenSeq([i \in 1..Len(TripsWithIds(f, TripIdsOf(trips))) |->
                   StopTimeRows(TripsWithIds(f, TripIdsOf(trips))[i])])

\* stop_times.sort_values(['trip_id','stop_sequence']).groupby('trip_id').first()
FirstStops(f, trips) ==
    LET own == TripsWithIds(f, TripIdsOf(trips))
        byId == StableSortBy(own, [i \in 1..Len(own) |-> own[i].trip_id])
    IN  [i \in 1..Len(byId) |-> StopTimeRows(byId[i])[1]]

\* stop_times.sort_values(['trip_id','stop_sequence']).groupby('trip_id').last()
LastStops(f, trips) ==
    LET own == TripsWithIds(f, TripIdsOf(trips))
        byId == StableSortBy(own, [i \in 1..Len(own) |-> own[i].trip_id])
    IN  [i \in 1..Len(byId) |-> StopTimeRows(byId[i])[Len(byId[i].stop_times)]]

\* feed.stops[stop_id == s]['stop_name'].values: empty when s has no row.
StopNameValues(f, s) ==
    IF s \in DOMAIN f.stops THEN <<f.stops[s].stop_name>> ELSE <<>>

\* One departure row per contributing trip: the rows at stop_id when it is
\* given, else the first stop of each trip.
DepartureRows(f, trips, stop_id) ==
    IF stop_id # None
    THEN SelectSeq(StopTimesOf(f, trips), LAMBDA r : r.stop_id = stop_id)
    ELSE FirstStops(f, trips)

\* stop_times.merge(trips, on='trip_id'): each departure row once per trip
\* row carrying its trip_id.
MergeOnTripId(rows, trips) ==
    FlattenSeq([i \in 1..Len(rows) |->
        [k \in 1..Cardinality({j \in 1..Len(trips) : trips[j].trip_id = rows[i].trip_id})
            |-> rows[i]]])

\* A mutant of SortByDepartureSeconds: the sort key is the clock time
\* normalized to the hour of day.
SortByDepartureSeconds_Normalized(rows) ==
    StableSortBy(rows, [i \in 1..Len(rows) |-> DepartureSeconds(rows[i].departure_time) % 86400])

\* sort_values('departure_seconds')
SortByDepartureSeconds(rows) ==
    StableSortBy(rows, [i \in 1..Len(rows) |-> DepartureSeconds(rows[i].departure_time)])

-----------------------------------------------------------------------------
(* The chronological headway computation shared by all entry points.       *)

\* A mutant of RecordedGapIndices: only the first gap is skipped.
RecordedGapIndices_KeepLast(n, exclude_first_last) ==
    {i \in 1..(n - 1) : ~(exclude_first_last /\ i = 1)}

\* The loop indices i (Python, 0-based) whose gap is recorded.
RecordedGapIndices(n, exclude_first_last) ==
    {i \in 1..(n - 1) : ~(exclude_first_last /\ (i = 1 \/ i = n - 1))}

\* headways_by_hour: hour of the earlier train -> the gaps recorded there, in
\* loop order.  deps is the sorted departure table (1-based: the loop's
\* departure_times[i-1] is deps[i]).
HeadwaysByHour(deps, exclude_first_last) ==
    LET idx == RecordedGapIndices(Len(deps), exclude_first_last)
        hourAt(i) == HourOfDay(deps[i].departure_time)
        gapAt(i) == HeadwayMinutes(DepartureSeconds(deps[i + 1].departure_time)
                                   - DepartureSeconds(deps[i].departure_time))
        inHour(h) == {i \in idx : hourAt(i) = h}
    IN  [h \in {hourAt(i) : i \in idx} |->
            [k \in 1..Cardinality(inHour(h)) |-> gapAt(KthSmallest(inHour(h), k))]]

\* trains_by_hour: hour -> number of departure rows in that hour.
TrainsByHour(deps) ==
    [h \in {HourOfDay(deps[i].departure_time) : i \in 1..Len(deps)} |->
        Cardinality({i \in 1..Len(deps) : HourOfDay(deps[i].departure_time) = h})]

\* dict.get(hour, 0)
GetOrZero(d, h) == IF h \in DOMAIN d THEN d[h] ELSE 0

\* One row of a headway table built from headways_by_hour.  The average is
\* kept exact as <<sum, count>>.
HeadwayRow(hour, num_trains, headways_by_hour) ==
    IF hour \in DOMAIN headways_by_hour /\ headways_by_hour[hour] # <<>>
    THEN [hour        |-> hour,
          num_trains  |-> num_trains,
          avg_headway |-> <<SumSeq(headways_by_hour[hour]), Len(headways_by_hour[hour])>>,
          min_headway |-> MinSeq(headways_by_hour[hour]),
          max_headway |-> MaxSeq(headways_by_hour[hour])]
    ELSE [hour        |-> hour,
          num_trains  |-> num_trains,
          avg_headway |-> <<0, 0>>,
          min_headway |-> NoHeadway,
          max_headway |-> NoHeadway]

\* The bare {} returned by the early exits of the dict-returning functions.
EmptyDict == [kind |-> "dict", headways |-> <<>>, departures |-> <<>>]

\* range(24) as a sequence of hours
AllHours == [k \in 1..24 |-> k - 1]

-----------------------------------------------------------------------------
(* headways.py                                                             *)

\* get_line_headways_by_hour_improved
get_line_headways_by_hour_improved(f, route_id, direction_id, service_id, stop_id, exclude_first_last) ==
    LET trips == TripsOfRoute(f, route_id, direction_id, service_id)
        rows == MergeOnTripId(DepartureRows(f, trips, stop_id), trips)
        deps == SortByDepartureSeconds(rows)
    IN  IF trips = <<>> THEN EmptyDict
        ELSE IF rows = <<>> THEN EmptyDict
        ELSE IF Len(deps) < 2 THEN EmptyDict
        ELSE [kind |-> "dict", headways |-> HeadwaysByHour(deps, exclude_first_last),
              departures |-> deps]

-----------------------------------------------------------------------------
(* Stop names are strings, modelled as sequences of one-character strings  *)
(* so that str.lower() and the substring test `in` are computed.           *)

ToLower == [c \in {"A","B","C","D","E","F","G","H","I","J","K","L","M","N","O","P","Q","R","S","T","U","V","W","X","Y","Z"} |->
    CASE c = "A" -> "a" [] c = "B" -> "b" [] c = "C" -> "c" [] c = "D" -> "d"
      [] c = "E" -> "e" [] c = "F" -> "f" [] c = "G" -> "g" [] c = "H" -> "h"
      [] c = "I" -> "i" [] c = "J" -> "j" [] c = "K" -> "k" [] c = "L" -> "l"
      [] c = "M" -> "m" [] c = "N" -> "n" [] c = "O" -> "o" [] c = "P" -> "p"
      [] c = "Q" -> "q" [] c = "R" -> "r" [] c = "S" -> "s" [] c = "T" -> "t"
      [] c = "U" -> "u" [] c = "V" -> "v" [] c = "W" -> "w" [] c = "X" -> "x"
      [] c = "Y" -> "y" [] c = "Z" -> "z"]

\* str.lower()
Lower(str) == [i \in 1..Len(str) |-> IF str[i] \in DOMAIN ToLower THEN ToLower[str[i]] ELSE str[i]]

\* Python's `a in b` on strings
IsSubstring(a, b) == \E i \in 0..(Len(b) - Len(a)) : SubSeq(b, i + 1, i + Len(a)) = a

-----------------------------------------------------------------------------
(* combined_headways.py                                                    *)

\* A mutant of CombinedTrips: only the first listed route contributes.
CombinedTrips_FirstRouteOnly(f, route_ids, direction_id, service_id) ==
    IF route_ids = <<>> THEN <<>>
    ELSE TripsOfRoute(f, route_ids[1], direction_id, service_id)

\* pd.concat(all_trips): the trips of every listed route (lines 1008-1024).
CombinedTrips(f, route_ids, direction_id, service_id) ==
    FlattenSeq([i \in 1..Len(route_ids) |->
                   TripsOfRoute(f, route_ids[i], direction_id, service_id)])

\* get_combined_headways_by_hour: the bare {} on an early exit, else the pair
\* (headways_by_hour, trains_by_hour).
get_combined_headways_by_hour(f, route_ids, direction_id, service_id, stop_id, exclude_first_last) ==
    LET combined_trips == CombinedTrips(f, route_ids, direction_id, service_id)
        rows == MergeOnTripId(DepartureRows(f, combined_trips, stop_id), combined_trips)
        deps == SortByDepartureSeconds(rows)
    IN  IF combined_trips = <<>> THEN EmptyDict
        ELSE IF rows = <<>> THEN EmptyDict
        ELSE IF Len(deps) < 2 THEN EmptyDict
        ELSE [kind       |-> "tuple",
              headways   |-> HeadwaysByHour(deps, exclude_first_last),
              trains     |-> TrainsByHour(deps),
              departures |-> deps]

\* get_headway_dist: unpacks the pair returned by
\* get_combined_headways_by_hour; unpacking the bare {} raises ValueError.
get_headway_dist(f, direction_id, route_ids, service_id, stop_id, exclude_first_last) ==
    LET r == get_combined_headways_by_hour(f, route_ids, direction_id, service_id,
                                           stop_id, exclude_first_last)
    IN  IF Len(route_ids) = 0
        THEN [kind |-> "ValueError", message |-> "Must provide at least one route ID"]
        ELSE IF r.kind # "tuple"
        THEN [kind |-> "ValueError", message |-> "not enough values to unpack"]
        ELSE [kind |-> "DataFrame",
              rows |-> [k \in 1..24 |->
                          HeadwayRow(AllHours[k], GetOrZero(r.trains, AllHours[k]), r.headways)],
              departures |-> r.departures]

\* get_individual_and_combined_headways
get_individual_and_combined_headways(f, route_ids, direction_id, service_id, stop_id, exclude_first_last) ==
    LET individual == [i \in 1..Len(route_ids) |->
                         get_line_headways_by_hour_improved(f, route_ids[i], direction_id,
                             service_id, stop_id, exclude_first_last)]
        r == get_combined_headways_by_hour(f, route_ids, direction_id, service_id,
                                           stop_id, exclude_first_last)
    IN  IF r.kind # "tuple"
        THEN [kind |-> "ValueError", message |-> "not enough values to unpack"]
        ELSE [kind         |-> "dict",
              individual   |-> [i \in 1..Len(route_ids) |-> individual[i].headways],
              combined     |-> r.headways,
              trains_count |-> r.trains,
              departures   |-> r.departures]

\* The first stop of `unique` whose name contains the lower-cased substring
\* (the search loops at lines 492-511); None when the loop finds none.
MatchingStop(f, unique, branch_terminal_lower) ==
    LET hits == {i \in 1..Len(unique) :
                    /\ StopNameValues(f, unique[i]) # <<>>
                    /\ IsSubstring(branch_terminal_lower, Lower(StopNameValues(f, unique[i])[1]))}
    IN  IF hits = {} THEN None ELSE unique[KthSmallest(hits, 1)]

\* The value the loop variable stop_id holds after the two search loops: both
\* loops are `for stop_id in ...`, so they overwrite the parameter stop_id.
\* The second loop runs over last_stop_unique, which is never empty, and
\* leaves the matched stop (break) or the last stop it visited.
StopIdAfterSearch(last_stop_unique, matching_last_stop_id) ==
    IF matching_last_stop_id # None THEN matching_last_stop_id
    ELSE last_stop_unique[Len(last_stop_unique)]

\* A mutant of SignificantStops: every stop counts, however few trips.
SignificantStops_All(stops, num_trips) == Cardinality(Range(stops))

\* sum(stop_counts >= min_significant_trips), min_significant_trips being
\* len(trips) * 0.05
SignificantStops(stops, num_trips) ==
    Cardinality({s \in Range(stops) :
        20 * Cardinality({i \in 1..Len(stops) : stops[i] = s}) >= num_trips})

\* f"'{name}'"
Quote(name) == <<"'">> \o name \o <<"'">>

RECURSIVE StripQuotes(_)
\* str.strip("'")
StripQuotes(str) ==
    IF str = <<>> THEN str
    ELSE IF Head(str) = "'" THEN StripQuotes(Tail(str))
    ELSE IF str[Len(str)] = "'" THEN StripQuotes(SubSeq(str, 1, Len(str) - 1))
    ELSE str

RECURSIVE AvailableStops(_, _, _)
\* The list available_stops of the error path (lines 558-562), built over
\* list(first_stop_unique) + list(last_stop_unique).
AvailableStops(f, stop_ids, available_stops) ==
    IF stop_ids = <<>> THEN available_stops
    ELSE LET stop_name == StopNameValues(f, Head(stop_ids))
         IN  IF /\ Len(stop_name) > 0
                /\ stop_name[1] \notin {StripQuotes(available_stops[i]) : i \in 1..Len(available_stops)}
             THEN AvailableStops(f, Tail(stop_ids), Append(available_stops, Quote(stop_name[1])))
             ELSE AvailableStops(f, Tail(stop_ids), available_stops)

\* Which end of the trips identifies the branch (lines 514-567): "first",
\* "last", or None when the substring matches at neither end.
BranchEnd(first_stop_ids, last_stop_ids, matching_first_stop_id, matching_last_stop_id, num_trips) ==
    IF matching_first_stop_id # None /\ matching_last_stop_id # None
    THEN IF SignificantStops(first_stop_ids, num_trips) > SignificantStops(last_stop_ids, num_trips)
         THEN "first"
         ELSE IF SignificantStops(last_stop_ids, num_trips) > SignificantStops(first_stop_ids, num_trips)
         THEN "last"
         ELSE IF Len(Unique(first_stop_ids)) < Len(Unique(last_stop_ids)) THEN "first" ELSE "last"
    ELSE IF matching_first_stop_id # None THEN "first"
    ELSE IF matching_last_stop_id # None THEN "last"
    ELSE None

\* The per-hour table of get_headway_dist_branch (lines 610-675): num_trains
\* is the number of gaps recorded in the hour, or the constant 0/1 on every
\* row when fewer than two departures qualify.
BranchRows(deps, exclude_first_last) ==
    IF Len(deps) < 2
    THEN [k \in 1..24 |-> HeadwayRow(AllHours[k], IF Len(deps) = 0 THEN 0 ELSE 1, <<>>)]
    ELSE LET headways_by_hour == HeadwaysByHour(deps, exclude_first_last)
         IN  [k \in 1..24 |->
                 HeadwayRow(AllHours[k],
                            IF AllHours[k] \in DOMAIN headways_by_hour
                            THEN Len(headways_by_hour[AllHours[k]]) ELSE 0,
                            headways_by_hour)]

\* A mutant of BranchTripIds: every trip of the triple is kept.
BranchTripIds_All(branch_stops, matching_terminal_id) ==
    {branch_stops[i].trip_id : i \in 1..Len(branch_stops)}

\* branch_trip_ids (line 570): the trips whose stop at the chosen end is the
\* matched terminal.
BranchTripIds(branch_stops, matching_terminal_id) ==
    {branch_stops[i].trip_id : i \in {j \in 1..Len(branch_stops) :
                                        branch_stops[j].stop_id = matching_terminal_id}}

\* get_headway_dist_branch
get_headway_dist_branch(f, route_id, direction_id, branch_terminal, service_id, stop_id, exclude_first_last) ==
    LET trips == TripsOfTriple(f, route_id, direction_id, service_id)
        first_stops == FirstStops(f, trips)
        last_stops == LastStops(f, trips)
        first_stop_ids == [i \in 1..Len(first_stops) |-> first_stops[i].stop_id]
        last_stop_ids == [i \in 1..Len(last_stops) |-> last_stops[i].stop_id]
        first_stop_unique == Unique(first_stop_ids)
        last_stop_unique == Unique(last_stop_ids)
        branch_terminal_lower == Lower(branch_terminal)
        matching_first_stop_id == MatchingStop(f, first_stop_unique, branch_terminal_lower)
        matching_last_stop_id == MatchingStop(f, last_stop_unique, branch_terminal_lower)
        end == BranchEnd(first_stop_ids, last_stop_ids, matching_first_stop_id,
                         matching_last_stop_id, Len(trips))
        branch_stops == IF end = "first" THEN first_stops ELSE last_stops
        matching_terminal_id == IF end = "first" THEN matching_first_stop_id
                                ELSE matching_last_stop_id
        branch_trip_ids == BranchTripIds(branch_stops, matching_terminal_id)
        shadowed_stop_id == StopIdAfterSearch(last_stop_unique, matching_last_stop_id)
        branch_stop_times == DepartureRows(f, TripsWithIds(f, branch_trip_ids), shadowed_stop_id)
        deps == SortByDepartureSeconds(branch_stop_times)
    IN  IF trips = <<>>
        THEN [kind |-> "ValueError", message |-> "No trips found", available |-> {}]
        ELSE IF end = None
        THEN [kind |-> "ValueError", message |-> "No stop matching",
              available |-> Range(AvailableStops(f, first_stop_unique \o last_stop_unique, <<>>))]
        ELSE IF branch_stop_times = <<>>
        THEN [kind |-> "ValueError", message |-> "No stop times found for stop",
              available |-> {}]
        ELSE [kind |-> "DataFrame",
              rows |-> BranchRows(deps, exclude_first_last),
              branch_terminal |-> StopNameValues(f, matching_terminal_id)[1],
              branch_terminal_id |-> matching_terminal_id,
              branch_end_description |-> IF end = "first" THEN "originates from"
                                         ELSE "terminates at",
              departures |-> deps]

\* A route spec of get_headway_dist_combined: a plain route id string, or
\* the tuple (route_id, branch_terminal).
PlainSpec(route_id) == [is_tuple |-> FALSE, route_id |-> route_id, branch_terminal |-> <<>>]

BranchSpec(route_id, branch_terminal) == [is_tuple |-> TRUE, route_id |-> route_id, branch_terminal |-> branch_terminal]

\* A mutant of SpecTripIds: a plain route id adds its first trip only.
SpecTripIds_FirstTripOnly(f, spec, direction_id, service_id, branch_df) ==
    LET trips == TripsOfTriple(f, spec.route_id, direction_id, service_id)
    IN  IF spec.is_tuple
        THEN IF branch_df.branch_end_description = "originates from"
             THEN BranchTripIds(FirstStops(f, trips), branch_df.branch_terminal_id)
             ELSE BranchTripIds(LastStops(f, trips), branch_df.branch_terminal_id)
        ELSE TripIdsOf(SubSeq(trips, 1, 1))

\* The trip ids one spec adds to all_trip_ids (lines 778-831), once its
\* branch lookup, if any, has returned branch_df.
SpecTripIds(f, spec, direction_id, service_id, branch_df) ==
    LET trips == TripsOfTriple(f, spec.route_id, direction_id, service_id)
    IN  IF spec.is_tuple
        THEN IF branch_df.branch_end_description = "originates from"
             THEN BranchTripIds(FirstStops(f, trips), branch_df.branch_terminal_id)
             ELSE BranchTripIds(LastStops(f, trips), branch_df.branch_terminal_id)
        ELSE TripIdsOf(trips)

\* hour_list: the hours a row is emitted for.
HourList(hour_range) ==
    IF Len(hour_range) # 0
    THEN [k \in 1..(hour_range[2] + 1 - hour_range[1]) |-> hour_range[1] + k - 1]
    ELSE AllHours

\* A mutant of FilterHourRange: the departures are not filtered.
FilterHourRange_Off(rows, hour_range) == rows

\* The hour_range filter on the departure rows (lines 868-876).
FilterHourRange(rows, hour_range) ==
    IF Len(hour_range) # 0
    THEN SelectSeq(rows, LAMBDA r : /\ HourOfDay(r.departure_time) >= hour_range[1]
                                    /\ HourOfDay(r.departure_time) <= hour_range[2])
    ELSE rows

\* get_headway_dist_combined.  An exception raised by a branch lookup is not
\* caught: the first failing spec ends the call with that exception.
get_headway_dist_combined(f, direction_id, route_specs, service_id, stop_id, hour_range, exclude_first_last) ==
    LET branch_df(i) == get_headway_dist_branch(f, route_specs[i].route_id, direction_id,
                            route_specs[i].branch_terminal, service_id, stop_id,
                            exclude_first_last)
        failing == {i \in 1..Len(route_specs) :
                       route_specs[i].is_tuple /\ branch_df(i).kind = "ValueError"}
        all_trip_ids == UNION {SpecTripIds(f, route_specs[i], direction_id, service_id,
                                           IF route_specs[i].is_tuple THEN branch_df(i) ELSE None)
                               : i \in 1..Len(route_specs)}
        combined_trips == TripsWithIds(f, all_trip_ids)
        stop_times == DepartureRows(f, combined_trips, stop_id)
        deps == SortByDepartureSeconds(FilterHourRange(stop_times, hour_range))
        trains_by_hour == TrainsByHour(deps)
        headways_by_hour == IF Len(deps) < 2 THEN <<>>
                            ELSE HeadwaysByHour(deps, exclude_first_last)
        hour_list == HourList(hour_range)
    IN  IF failing # {}
        THEN [kind |-> "ValueError",
              message |-> branch_df(KthSmallest(failing, 1)).message,
              failed_spec |-> KthSmallest(failing, 1)]
        ELSE IF all_trip_ids = {}
        THEN [kind |-> "ValueError", message |-> "No trips found", failed_spec |-> 0]
        ELSE IF stop_times = <<>>
        THEN [kind |-> "ValueError", message |-> "No stop times found for stop",
              failed_spec |-> 0]
        ELSE [kind |-> "DataFrame",
              rows |-> [k \in 1..Len(hour_list) |->
                          HeadwayRow(hour_list[k], GetOrZero(trains_by_hour, hour_list[k]),
                                     headways_by_hour)],
              hour_range |-> hour_range,
              departures |-> deps]

-----------------------------------------------------------------------------
(* travel_times.py                                                         *)

\* Series.value_counts(): the distinct values by descending count.  The
\* order of values of equal count is left to the sort of the pandas build,
\* so every order of descending count is a possible outcome.
ValueCountsOrders(values) ==
    LET u == Unique(values)
        n == Len(u)
        count(v) == Cardinality({i \in 1..Len(values) : values[i] = v})
        orders == {[k \in 1..n |-> u[p[k]]] :
                      p \in {q \in [1..n -> 1..n] : \A i, j \in 1..n : q[i] = q[j] => i = j}}
    IN  {o \in orders : \A i, j \in 1..n : i < j => count(o[i]) >= count(o[j])}

\* The stop ids of a trip in stop_sequence order.
TripStopIds(f, trip_id) ==
    LET t == CHOOSE t \in Range(f.trips) : t.trip_id = trip_id
    IN  [k \in 1..Len(t.stop_times) |-> t.stop_times[k].stop_id]

\* stop_times[trip_id.isin(trip_ids)].groupby('trip_id').size().idxmax():
\* the trip with the most stop_times rows, the lowest trip_id among equals.
MaxStopsTrip(f, trip_ids) ==
    KthSmallest({id \in trip_ids :
                    \A other \in trip_ids :
                        Len(TripStopIds(f, other)) <= Len(TripStopIds(f, id))}, 1)

\* terminals[terminals['stop_id'] == terminal_id]['trip_id'].tolist()
TerminalTrips(terminals, terminal_id) ==
    LET rows == SelectSeq(terminals, LAMBDA r : r.stop_id = terminal_id)
    IN  [i \in 1..Len(rows) |-> rows[i].trip_id]

\* The dict identify_branches appends to branches_info for one terminal.
BranchInfo(f, terminals, terminal_id) ==
    LET terminal_trips == TerminalTrips(terminals, terminal_id)
        terminal_name == StopNameValues(f, terminal_id)
    IN  [terminal_id   |-> terminal_id,
         terminal_name |-> IF Len(terminal_name) > 0 THEN terminal_name[1] ELSE <<terminal_id>>,
         trip_count    |-> Len(terminal_trips),
         stop_count    |-> Len(TripStopIds(f, MaxStopsTrip(f, Range(terminal_trips))))]

\* A mutant of SortBranches: the branches stay in value_counts order.
SortBranches_Unsorted(branches_info) == branches_info

\* branches_info.sort(key=lambda x: (-x['trip_count'], x['stop_count'])):
\* list.sort is stable; the pair is compared lexicographically.
SortBranches(branches_info) ==
    LET base == 1 + MaxSeq(<<0>> \o [k \in 1..Len(branches_info) |-> branches_info[k].stop_count])
    IN  StableSortBy(branches_info,
                     [k \in 1..Len(branches_info) |->
                         branches_info[k].stop_count - base * branches_info[k].trip_count])

\* A mutant of CommonStops: the stop ids on the first trip to any terminal.
CommonStops_AnyBranch(f, terminals, terminal_order) ==
    UNION {Range(TripStopIds(f, TerminalTrips(terminals, terminal_order[k])[1]))
              : k \in 1..Len(terminal_order)}

\* common_stops: the stop ids on the first trip to every terminal.
CommonStops(f, terminals, terminal_order) ==
    {s \in UNION {Range(TripStopIds(f, TerminalTrips(terminals, terminal_order[k])[1]))
                     : k \in 1..Len(terminal_order)} :
        \A k \in 1..Len(terminal_order) :
            s \in Range(TripStopIds(f, TerminalTrips(terminals, terminal_order[k])[1]))}

\* identify_branches.  terminal_order is the order in which value_counts
\* lists the terminals (one of ValueCountsOrders).
identify_branches(f, route_id, direction_id, service_id, terminal_order) ==
    LET trips == TripsOfTriple(f, route_id, direction_id, service_id)
        terminals == LastStops(f, trips)
        branches_info == SortBranches([k \in 1..Len(terminal_order) |->
                                          BranchInfo(f, terminals, terminal_order[k])])
        common_stops == CommonStops(f, terminals, terminal_order)
        sample_trip == terminals[1].trip_id
        common_in_sequence == SelectSeq(TripStopIds(f, sample_trip),
                                        LAMBDA stop_id : stop_id \in common_stops)
        branch_point == IF common_stops # {} /\ common_in_sequence # <<>>
                        THEN common_in_sequence[Len(common_in_sequence)]
                        ELSE None
    IN  IF trips = <<>> THEN [branch_point |-> None, branches_info |-> <<>>]
        ELSE IF Len(terminal_order) = 1 THEN [branch_point |-> None, branches_info |-> <<>>]
        ELSE [branch_point |-> branch_point, branches_info |-> branches_info]

\* A mutant of normalize_stop_id: the stop id is returned as it is.
normalize_stop_id_Raw(f, stop_id) == stop_id

\* normalize_stop_id
normalize_stop_id(f, stop_id) ==
    IF stop_id \notin DOMAIN f.stops THEN stop_id
    ELSE IF f.stops[stop_id].parent_station # None THEN f.stops[stop_id].parent_station
    ELSE stop_id

\* The body shared by the three loops of get_station_order: the stop is
\* appended as (normalized_id, stop_name) when its normalized id has not
\* been seen and has a row in stops.
AddStop(f, stop_id, all_stops) ==
    LET normalized_id == normalize_stop_id(f, stop_id)
        stop_name == StopNameValues(f, normalized_id)
    IN  IF normalized_id \notin {all_stops[i][1] : i \in 1..Len(all_stops)} /\ Len(stop_name) > 0
        THEN Append(all_stops, <<normalized_id, stop_name[1]>>)
        ELSE all_stops

RECURSIVE AddStops(_, _, _)
\* for stop_id in trip_stops['stop_id']: ...
AddStops(f, stop_ids, all_stops) ==
    IF stop_ids = <<>> THEN all_stops
    ELSE AddStops(f, Tail(stop_ids), AddStop(f, Head(stop_ids), all_stops))

RECURSIVE AddTrunkStops(_, _, _, _)
\* The trunk loop (lines 204-213): as AddStops, but it breaks after the row
\* whose normalized id is that of the branch point.
AddTrunkStops(f, stop_ids, branch_point, all_stops) ==
    IF stop_ids = <<>> THEN all_stops
    ELSE IF normalize_stop_id(f, Head(stop_ids)) = normalize_stop_id(f, branch_point)
    THEN AddStop(f, Head(stop_ids), all_stops)
    ELSE AddTrunkStops(f, Tail(stop_ids), branch_point, AddStop(f, Head(stop_ids), all_stops))

RECURSIVE AddBranches(_, _, _, _)
\* The loop over branches_info (lines 218-234): every unseen stop of the
\* trip with the most stops to each terminal is appended.
AddBranches(f, terminals, branches_info, all_stops) ==
    IF branches_info = <<>> THEN all_stops
    ELSE LET branch_trip_ids == TerminalTrips(terminals, Head(branches_info).terminal_id)
             branch_max_trip == MaxStopsTrip(f, Range(branch_trip_ids))
         IN  AddBranches(f, terminals, Tail(branches_info),
                         AddStops(f, TripStopIds(f, branch_max_trip), all_stops))

\* get_station_order.  terminal_order is passed on to identify_branches.
get_station_order(f, route_id, direction_id, service_id, terminal_order) ==
    LET trips == TripsOfTriple(f, route_id, direction_id, service_id)
        branches == identify_branches(f, route_id, direction_id, service_id, terminal_order)
        terminals == LastStops(f, trips)
        trunk == IF branches.branch_point # None
                 THEN AddTrunkStops(f, TripStopIds(f, terminals[1].trip_id),
                                    branches.branch_point, <<>>)
                 ELSE <<>>
    IN  IF trips = <<>> THEN <<>>
        ELSE IF branches.branches_info = <<>>
        THEN AddStops(f, TripStopIds(f, MaxStopsTrip(f, TripIdsOf(trips))), <<>>)
        ELSE AddBranches(f, terminals, branches.branches_info, trunk)

\* list.insert(insert_pos, item): the item comes after the first insert_pos
\* elements.
ListInsert(list, insert_pos, item) ==
    SubSeq(list, 1, insert_pos) \o <<item>> \o SubSeq(list, insert_pos + 1, Len(list))

\* insert_pos taken as the end of the list whatever precedes the stop.
InsertPos_End(order_dir0, i, combined_order, seen_stops) ==
    Len(combined_order)

\* insert_pos for order_dir0[i] (lines 275-286): the end of the list, unless
\* a stop before it in order_dir0 is in seen_stops; then one past the first
\* place of the nearest such stop in combined_order.
InsertPos(order_dir0, i, combined_order, seen_stops) ==
    LET before == {j \in 1..(i - 1) : order_dir0[j][1] \in seen_stops}
    IN  IF before = {} THEN Len(combined_order)
        ELSE LET j == CHOOSE x \in before : \A y \in before : y <= x
                 found == {k \in 1..Len(combined_order) :
                              combined_order[k][1] = order_dir0[j][1]}
             IN  IF found = {} THEN Len(combined_order)
                 ELSE CHOOSE k \in found : \A y \in found : k <= y

RECURSIVE InsertDir0Only(_, _, _, _)
\* for i, (stop_id, stop_name) in enumerate(order_dir0): ... (lines 271-289)
InsertDir0Only(order_dir0, i, combined_order, seen_stops) ==
    IF i > Len(order_dir0) THEN combined_order
    ELSE IF order_dir0[i][1] \in seen_stops
    THEN InsertDir0Only(order_dir0, i + 1, combined_order, seen_stops)
    ELSE InsertDir0Only(order_dir0, i + 1,
                        ListInsert(combined_order,
                                   InsertPos(order_dir0, i, combined_order, seen_stops),
                                   order_dir0[i]),
                        seen_stops \cup {order_dir0[i][1]})

\* get_bidirectional_station_order.  The two terminal orders are those of
\* the two calls of get_station_order.
get_bidirectional_station_order(f, route_id, service_id, terminal_order0, terminal_order1) ==
    LET order_dir0 == get_station_order(f, route_id, 0, service_id, terminal_order0)
        order_dir1 == get_station_order(f, route_id, 1, service_id, terminal_order1)
    IN  InsertDir0Only(order_dir0, 1, order_dir1,
                       {order_dir1[k][1] : k \in 1..Len(order_dir1)})

-----------------------------------------------------------------------------
(* express_local.py                                                        *)

\* Python's None where a dict is returned.
NoDict == <<>>

\* create_stop_borough_mapping: stop_id -> borough; the borough of a stop
\* is what get_stop_borough finds for its coordinates, None when the point
\* lies in no polygon.
StopBoroughMap(f) == [s \in DOMAIN f.stops |-> f.stops[s].borough]

\* stop_borough_map.get(stop_id)
BoroughOf(stop_borough_map, stop_id) ==
    IF stop_id \in DOMAIN stop_borough_map THEN stop_borough_map[stop_id] ELSE None

\* get_reference_stop_pattern
get_reference_stop_pattern(f, route_id, direction_id, branch_terminal) ==
    LET all == TripsOfRoute(f, route_id, direction_id, None)
        terminals == LastStops(f, all)
        trips == IF branch_terminal # None
                 THEN TripsWithIds(f, Range(TerminalTrips(terminals, branch_terminal)))
                 ELSE all
    IN  IF trips = <<>> THEN <<>>
        ELSE TripStopIds(f, MaxStopsTrip(f, TripIdsOf(trips)))

\* A mutant of ClassifyBorough: a trip with two stops or more in the
\* borough is express even when it makes every reference stop.
ClassifyBorough_AllStopsExpress(trip_stops_in_borough, borough_reference_stops) ==
    IF Len(trip_stops_in_borough) >= 2 THEN "express" ELSE "local"

\* A mutant of ClassifyBorough: a trip that skips reference stops is
\* express even when it makes a single stop in the borough.
ClassifyBorough_SingleStopExpress(trip_stops_in_borough, borough_reference_stops) ==
    IF Len(trip_stops_in_borough) = Len(borough_reference_stops) THEN "local" ELSE "express"

\* The branch of classify_trip_express_local that labels one borough in
\* which the trip makes a stop (lines 384-398).
ClassifyBorough(trip_stops_in_borough, borough_reference_stops) ==
    IF Len(trip_stops_in_borough) = Len(borough_reference_stops) THEN "local"
    ELSE IF Len(trip_stops_in_borough) >= 2 THEN "express"
    ELSE "local"

\* classify_trip_express_local: the dict borough -> 'express' / 'local'.
classify_trip_express_local(f, trip_id, reference_stop_pattern, stop_borough_map) ==
    LET trip_stops == Range(TripStopIds(f, trip_id))
        reference_by_borough(borough) ==
            SelectSeq(reference_stop_pattern,
                      LAMBDA stop_id : BoroughOf(stop_borough_map, stop_id) = borough)
        trip_stops_in_borough(borough) ==
            SelectSeq(reference_by_borough(borough), LAMBDA s : s \in trip_stops)
        boroughs == {BoroughOf(stop_borough_map, reference_stop_pattern[k]) :
                        k \in 1..Len(reference_stop_pattern)} \ {None}
    IN  [borough \in {b \in boroughs : trip_stops_in_borough(b) # <<>>} |->
            ClassifyBorough(trip_stops_in_borough(borough), reference_by_borough(borough))]

\* identify_branch_point.  terminal_order is the order in which
\* value_counts lists the terminals; branches is the dict terminal ->
\* trip ids as the list of its items.
identify_branch_point(f, route_id, direction_id, terminal_order) ==
    LET trips == TripsOfRoute(f, route_id, direction_id, None)
        terminals == LastStops(f, trips)
        trips_by_terminal == [k \in 1..Len(terminal_order) |->
                                 [terminal |-> terminal_order[k],
                                  trip_ids |-> TerminalTrips(terminals, terminal_order[k])]]
        common_stops == CommonStops(f, terminals, terminal_order)
        common_in_sequence == SelectSeq(TripStopIds(f, terminals[1].trip_id),
                                        LAMBDA stop_id : stop_id \in common_stops)
    IN  IF trips = <<>> THEN [branch_point |-> None, branches |-> <<>>]
        ELSE IF Len(terminal_order) = 1
        THEN [branch_point |-> None,
              branches |-> <<[terminal |-> terminal_order[1],
                              trip_ids |-> [i \in 1..Len(trips) |-> trips[i].trip_id]]>>]
        ELSE IF common_stops # {} /\ common_in_sequence # <<>>
        THEN [branch_point |-> common_in_sequence[Len(common_in_sequence)],
              branches |-> trips_by_terminal]
        ELSE [branch_point |-> None, branches |-> trips_by_terminal]

\* The rows analyze_route_express_patterns appends for one branch: the
\* trips to the terminal that passed the service filter, classified against
\* the reference pattern of the branch.
BranchPatternRows(f, route_id, direction_id, branch, trip_ids, stop_borough_map) ==
    LET own == SelectSeq(branch.trip_ids, LAMBDA trip_id : trip_id \in trip_ids)
        reference_pattern == get_reference_stop_pattern(f, route_id, direction_id, branch.terminal)
    IN  [i \in 1..Len(own) |->
            [trip_id         |-> own[i],
             branch_terminal |-> branch.terminal,
             classification  |-> classify_trip_express_local(f, own[i], reference_pattern,
                                                             stop_borough_map)]]

\* analyze_route_express_patterns: the rows of the DataFrame, <<>> for the
\* empty DataFrame.
analyze_route_express_patterns(f, route_id, direction_id, service_id, terminal_order) ==
    LET stop_borough_map == StopBoroughMap(f)
        trips == TripsOfRoute(f, route_id, direction_id, service_id)
        found == identify_branch_point(f, route_id, direction_id, terminal_order)
        reference_pattern == get_reference_stop_pattern(f, route_id, direction_id, None)
    IN  IF trips = <<>> THEN <<>>
        ELSE IF found.branch_point # None /\ Len(found.branches) > 1
        THEN FlattenSeq([k \in 1..Len(found.branches) |->
                            BranchPatternRows(f, route_id, direction_id, found.branches[k],
                                              TripIdsOf(trips), stop_borough_map)])
        ELSE [i \in 1..Len(trips) |->
                 [trip_id         |-> trips[i].trip_id,
                  branch_terminal |-> None,
                  classification  |-> classify_trip_express_local(f, trips[i].trip_id,
                                          reference_pattern, stop_borough_map)]]

\* The borough names get_express_service_times looks for among the columns.
BoroughNames == {"Manhattan", "Brooklyn", "Queens", "Bronx", "Staten Island"}

\* patterns['is_express'] of one row: express in the given borough, or in
\* any borough column when borough is None.
IsExpress(row, borough) ==
    IF borough # None
    THEN borough \in DOMAIN row.classification /\ row.classification[borough] = "express"
    ELSE \E col \in DOMAIN row.classification \cap BoroughNames :
            row.classification[col] = "express"

\* The dict appended to trip_times for one express trip (lines 527-550).
TripTimes(f, trip_id) ==
    LET t == CHOOSE t \in Range(f.trips) : t.trip_id = trip_id
        n == Len(t.stop_times)
    IN  [trip_id           |-> trip_id,
         departure_time    |-> t.stop_times[1].departure_time,
         arrival_time      |-> t.stop_times[n].arrival_time,
         departure_seconds |-> DepartureSeconds(t.stop_times[1].departure_time),
         origin            |-> f.stops[t.stop_times[1].stop_id].stop_name,
         destination       |-> f.stops[t.stop_times[n].stop_id].stop_name]

\* The dict returned when there is no express trip.
NoExpress ==
    [kind |-> "dict", first_express |-> NoDict, last_express |-> NoDict,
     total_express_trips |-> 0]

\* A mutant of SortTripTimes: the trips stay in table order.
SortTripTimes_Unsorted(trip_times) == trip_times

\* trip_times.sort(key=lambda x: x['departure_seconds'])
SortTripTimes(trip_times) ==
    StableSortBy(trip_times, [i \in 1..Len(trip_times) |-> trip_times[i].departure_seconds])

\* get_express_service_times
get_express_service_times(f, route_id, direction_id, service_id, borough, terminal_order) ==
    LET patterns == analyze_route_express_patterns(f, route_id, direction_id, service_id,
                                                   terminal_order)
        columns == UNION {DOMAIN patterns[i].classification : i \in 1..Len(patterns)}
        express_trips == SelectSeq(patterns, LAMBDA row : IsExpress(row, borough))
        trip_times == SortTripTimes([i \in 1..Len(express_trips) |->
                                        TripTimes(f, express_trips[i].trip_id)])
    IN  IF patterns = <<>> THEN [kind |-> "None"]
        ELSE IF borough # None /\ borough \notin columns THEN NoExpress
        ELSE IF express_trips = <<>> THEN NoExpress
        ELSE [kind |-> "dict",
              first_express |-> trip_times[1],
              last_express |-> trip_times[Len(trip_times)],
              total_express_trips |-> Len(trip_times),
              all_express_trips |-> trip_times]

\* ---------------------------------------------------------------------
\* travel_times.py: travel time matrices
\* ---------------------------------------------------------------------

RECURSIVE GCD(_, _)
GCD(a, b) == IF b = 0 THEN a ELSE GCD(b, a % b)

Abs(x) == IF x < 0 THEN 0 - x ELSE x

\* A number of minutes as the exact fraction <<numerator, denominator>> in
\* lowest terms; the floats of the source are these rationals.
Fraction(num, den) ==
    LET g == GCD(Abs(num), den)
    IN  <<num \div g, den \div g>>

\* np.nan, the value of a cell without data; its denominator is 0.
NaN == <<0, 0>>

\* The 0 written on the diagonal.
Zero == <<0, 1>>

isna(value) == value[2] = 0

\* np.mean of travel times kept in seconds, in minutes
\* (travel_minutes = travel_seconds / 60.0).
MeanMinutes(travel_seconds) == Fraction(SumSeq(travel_seconds), 60 * Len(travel_seconds))

\* A DataFrame of the given row and column labels; data[<<i, j>>] is the
\* value at row i, column j.
DataFrame(data, index, columns) == [index |-> index, columns |-> columns, data |-> data]

\* pd.DataFrame()
EmptyDataFrame == DataFrame(<<>>, <<>>, <<>>)

\* df.empty
IsEmpty(df) == Len(df.index) = 0 \/ Len(df.columns) = 0

\* A mutant of Transpose: the table is left as it was built.
Transpose_Off(df) == df

\* df.T
Transpose(df) ==
    DataFrame([p \in (1..Len(df.columns)) \X (1..Len(df.index)) |-> df.data[<<p[2], p[1]>>]],
              df.columns, df.index)

\* stops_data of one trip: its stop_times rows in stop_sequence order whose
\* normalized stop id is in the station list, with the clock times in seconds.
StopsData(f, t, stop_ids) ==
    LET rows == SelectSeq(t.stop_times,
                          LAMBDA row : normalize_stop_id(f, row.stop_id) \in Range(stop_ids))
    IN  [k \in 1..Len(rows) |->
            [stop_id           |-> normalize_stop_id(f, rows[k].stop_id),
             arrival_seconds   |-> rows[k].arrival_time[1] * 3600 + rows[k].arrival_time[2] * 60
                                       + rows[k].arrival_time[3],
             departure_seconds |-> rows[k].departure_time[1] * 3600
                                       + rows[k].departure_time[2] * 60
                                       + rows[k].departure_time[3],
             departure_hour    |-> rows[k].departure_time[1] % 24]]

\* The index pairs (i, j) with j > i of the nested loops over stops_data, in
\* loop order.
LaterPairs(n) ==
    SelectSeq([k \in 1..(n * n) |-> <<((k - 1) \div n) + 1, ((k - 1) % n) + 1>>],
              LAMBDA p : p[2] > p[1])

\* The hours calculate_travel_time_matrix admits: it has no departure-hour
\* test, and departure_hour is always one of these.
AnyHour == 0..23

\* canonical_station_order=None; a station order holds pairs, never <<>>.
NoOrder == << <<>> >>

\* What one trip appends to travel_times[pair_key], in seconds: one travel
\* time per pair of positions i < j of stops_data at the two stations whose
\* origin passes the departure-hour test.
TripTravelTimes(stops_data, pair_key, hours) ==
    LET found == SelectSeq(LaterPairs(Len(stops_data)),
                           LAMBDA p : /\ stops_data[p[1]].stop_id = pair_key[1]
                                      /\ stops_data[p[2]].stop_id = pair_key[2]
                                      /\ stops_data[p[1]].departure_hour \in hours)
    IN  [k \in 1..Len(found) |->
            stops_data[found[k][2]].arrival_seconds - stops_data[found[k][1]].departure_seconds]

\* travel_times[pair_key] after the loop over the trips.
TravelTimes(f, trips, stop_ids, pair_key, hours) ==
    FlattenSeq([i \in 1..Len(trips) |->
                   TripTravelTimes(StopsData(f, trips[i], stop_ids), pair_key, hours)])

\* matrix_data: row i is the origin, column j the destination.
MatrixData(f, trips, stop_ids, hours) ==
    [p \in (1..Len(stop_ids)) \X (1..Len(stop_ids)) |->
        IF p[1] = p[2] THEN Zero
        ELSE LET times == TravelTimes(f, trips, stop_ids, <<stop_ids[p[1]], stop_ids[p[2]]>>, hours)
             IN  IF times # <<>> THEN MeanMinutes(times) ELSE NaN]

\* The value of a local variable that is assigned once: the element of a
\* one-element set.
TheOne(values) == CHOOSE v \in values : TRUE

\* station_order of the two calculate functions: the list passed in, or the
\* one of get_station_order; terminal_order is the order value_counts lists
\* the terminals in there.
StationOrderOf(f, route_id, direction_id, service_id, canonical_station_order, terminal_order) ==
    IF canonical_station_order = NoOrder
    THEN get_station_order(f, route_id, direction_id, service_id, terminal_order)
    ELSE canonical_station_order

\* stop_ids and stop_names of a station order.
StopIds(station_order) == [k \in 1..Len(station_order) |-> station_order[k][1]]

StopNames(station_order) == [k \in 1..Len(station_order) |-> station_order[k][2]]

\* The table of the means over a station order: matrix_data with the names
\* as labels, transposed.
MatrixOver(f, trips, station_order, hours) ==
    TheOne({Transpose(DataFrame(MatrixData(f, trips, stop_ids, hours), stop_names, stop_names)) :
               stop_ids \in {StopIds(station_order)},
               stop_names \in {StopNames(station_order)}})

\* calculate_travel_time_matrix once station_order and trips are known.
TravelTimeMatrix(f, trips, station_order) ==
    IF station_order = <<>> THEN EmptyDataFrame
    ELSE MatrixOver(f, trips, station_order, AnyHour)

\* calculate_travel_time_matrix: station_order and trips are computed once,
\* then the table.
calculate_travel_time_matrix(f, route_id, direction_id, service_id, canonical_station_order, terminal_order) ==
    TheOne({TravelTimeMatrix(f, trips, station_order) :
               trips \in {TripsOfTriple(f, route_id, direction_id, service_id)},
               station_order \in {StationOrderOf(f, route_id, direction_id, service_id,
                                                 canonical_station_order, terminal_order)}})

\* A mutant of HourRange: the end of a range is left out.
HourRange_Exclusive(hour) == IF Len(hour) = 2 THEN hour[1]..(hour[2] - 1) ELSE {hour[1]}

\* hour_range of calculate_travel_time_matrix_by_hour: hour is <<h>> for
\* the integer h and <<start, end>> for a tuple.
HourRange(hour) == IF Len(hour) = 2 THEN hour[1]..hour[2] ELSE {hour[1]}

\* stations_with_data: the stations of the pairs that have travel times.
StationsWithData(f, trips, stop_ids, hours) ==
    UNION {{pair_key[1], pair_key[2]} :
              pair_key \in {p \in Range(stop_ids) \X Range(stop_ids) :
                               TravelTimes(f, trips, stop_ids, p, hours) # <<>>}}

\* The station list filtered to the stations with data, and the table over
\* it: the empty DataFrame when no station is left.
FilteredMatrix(f, trips, filtered, hour_range) ==
    IF filtered = <<>> THEN EmptyDataFrame
    ELSE TheOne({MatrixOver(f, trips, stations, hour_range) : stations \in {filtered}})

\* calculate_travel_time_matrix_by_hour once station_order, trips and
\* hour_range are known.
TravelTimeMatrixByHour(f, trips, station_order, hour_range) ==
    IF station_order = <<>> THEN EmptyDataFrame
    ELSE TheOne({FilteredMatrix(f, trips,
                                SelectSeq(station_order, LAMBDA s : s[1] \in stations_with_data),
                                hour_range) :
                    stations_with_data \in {StationsWithData(f, trips, StopIds(station_order),
                                                             hour_range)}})

\* calculate_travel_time_matrix_by_hour
calculate_travel_time_matrix_by_hour(f, route_id, direction_id, hour, service_id, canonical_station_order, terminal_order) ==
    TheOne({TravelTimeMatrixByHour(f, trips, station_order, HourRange(hour)) :
               trips \in {TripsOfTriple(f, route_id, direction_id, service_id)},
               station_order \in {StationOrderOf(f, route_id, direction_id, service_id,
                                                 canonical_station_order, terminal_order)}})

\* df.reindex(index=all_stations, columns=all_stations): the cells of the
\* labels the table has, NaN for the others.
Position(labels, label) == CHOOSE k \in 1..Len(labels) : labels[k] = label

Reindex(df, all_stations) ==
    DataFrame([p \in (1..Len(all_stations)) \X (1..Len(all_stations)) |->
                  IF all_stations[p[1]] \in Range(df.index) /\ all_stations[p[2]] \in Range(df.columns)
                  THEN df.data[<<Position(df.index, all_stations[p[1]]),
                                 Position(df.columns, all_stations[p[2]])>>]
                  ELSE NaN],
              all_stations, all_stations)

\* A mutant of AllStations: the labels of matrix_dir1 come first.
AllStations_OtherFirst(matrix_dir0, matrix_dir1) ==
    matrix_dir1.index \o SelectSeq(matrix_dir0.index,
                                   LAMBDA station : station \notin Range(matrix_dir1.index))

\* all_stations: the labels of matrix_dir0, then those only matrix_dir1 has.
AllStations(matrix_dir0, matrix_dir1) ==
    matrix_dir0.index \o SelectSeq(matrix_dir1.index,
                                   LAMBDA station : station \notin Range(matrix_dir0.index))

\* A mutant of FillFrom: direction 1 overwrites the cells it has.
FillFrom_Overwrite(combined, matrix_dir1) ==
    DataFrame([p \in DOMAIN combined.data |->
                  IF ~isna(matrix_dir1.data[p]) THEN matrix_dir1.data[p] ELSE combined.data[p]],
              combined.index, combined.columns)

\* The closing loop of combine_bidirectional_matrix: a NaN cell of combined
\* takes the value at the same position of matrix_dir1 when that is not NaN.
FillFrom(combined, matrix_dir1) ==
    DataFrame([p \in DOMAIN combined.data |->
                  IF isna(combined.data[p]) /\ ~isna(matrix_dir1.data[p])
                  THEN matrix_dir1.data[p] ELSE combined.data[p]],
              combined.index, combined.columns)

\* combine_bidirectional_matrix
combine_bidirectional_matrix(matrix_dir0, matrix_dir1) ==
    IF IsEmpty(matrix_dir0) THEN matrix_dir1
    ELSE IF IsEmpty(matrix_dir1) THEN matrix_dir0
    ELSE IF Range(matrix_dir0.index) # Range(matrix_dir1.index)
    THEN TheOne({FillFrom(reindexed_dir0, reindexed_dir1) :
                    reindexed_dir0 \in {Reindex(matrix_dir0, AllStations(matrix_dir0, matrix_dir1))},
                    reindexed_dir1 \in {Reindex(matrix_dir1, AllStations(matrix_dir0, matrix_dir1))}})
    ELSE FillFrom(matrix_dir0, matrix_dir1)

\* The matrix of one direction in display_bidirectional_matrix: of the hour
\* window when hour is given (<<>> is None), of all trips otherwise.  The
\* station order is a list here, so get_station_order is not called.
DirectionMatrix(f, route_id, direction_id, service_id, canonical_station_order, hour) ==
    IF hour # <<>>
    THEN calculate_travel_time_matrix_by_hour(f, route_id, direction_id, hour, service_id,
                                              canonical_station_order, <<>>)
    ELSE calculate_travel_time_matrix(f, route_id, direction_id, service_id,
                                      canonical_station_order, <<>>)

\* display_bidirectional_matrix
display_bidirectional_matrix(f, route_id, service_id, canonical_station_order, hour) ==
    TheOne({combine_bidirectional_matrix(matrix_dir[0], matrix_dir[1]) :
               matrix_dir \in {[direction_id \in {0, 1} |->
                                   DirectionMatrix(f, route_id, direction_id, service_id,
                                                   canonical_station_order, hour)]}})

\* stop_trip_counts[stop_id]: the stop_times rows of the trips whose
\* normalized stop id is stop_id.
StopTripCount(f, trips, stop_id) ==
    Len(SelectSeq(StopTimesOf(f, trips),
                  LAMBDA row : normalize_stop_id(f, row.stop_id) = stop_id))

\* A mutant of ExpressStopSet: any stop a trip calls at is an express stop.
ExpressStopSet_AnyTrip(f, trips) ==
    {normalize_stop_id(f, row.stop_id) : row \in Range(StopTimesOf(f, trips))}

\* express_stops: the counted stops with count / total_trips >= 0.5.
ExpressStopSet(f, trips) ==
    {stop_id \in {normalize_stop_id(f, row.stop_id) : row \in Range(StopTimesOf(f, trips))} :
        2 * StopTripCount(f, trips, stop_id) >= Len(trips)}

\* The test of the closing loop of filter_station_order_express on one stop.
KeepStop(borough, stop_id, express_stops, express_boroughs, all_stops_boroughs) ==
    IF all_stops_boroughs # <<>> /\ borough \in Range(all_stops_boroughs) THEN TRUE
    ELSE IF express_boroughs # <<>> /\ borough \in Range(express_boroughs)
    THEN stop_id \in express_stops
    ELSE borough \notin Range(express_boroughs) /\ borough \notin Range(all_stops_boroughs)

\* filter_station_order_express; the borough lists are <<>> for None.
filter_station_order_express(f, station_order, route_id, direction_id, service_id, express_boroughs, all_stops_boroughs, terminal_order) ==
    LET stop_borough_map == StopBoroughMap(f)
        patterns == analyze_route_express_patterns(f, route_id, direction_id, service_id,
                                                   terminal_order)
        trips_for_route == TripsOfTriple(f, route_id, direction_id, service_id)
        express_stops == ExpressStopSet(f, trips_for_route)
    IN  IF express_boroughs = <<>> THEN station_order
        ELSE IF patterns = <<>> THEN station_order
        ELSE SelectSeq(station_order,
                       LAMBDA s : KeepStop(BoroughOf(stop_borough_map, s[1]), s[1], express_stops,
                                           express_boroughs, all_stops_boroughs))

-----------------------------------------------------------------------------
(* Schedules.                                                              *)

\* A clock time k minutes after time_str, as a well-formed "HH:MM:SS" triple.
PlusMinutes(time_str, k) ==
    <<time_str[1] + ((time_str[2] + k) \div 60), (time_str[2] + k) % 60, time_str[3]>>

\* A trip row with its stop_times: the stops of `pattern` in order, the first
\* departing at `start` and each next one `run` minutes after the previous.
MakeTrip(trip_id, route_id, direction_id, service_id, pattern, start, run) ==
    [trip_id      |-> trip_id,
     route_id     |-> route_id,
     direction_id |-> direction_id,
     service_id   |-> service_id,
     stop_times   |-> [k \in 1..Len(pattern) |->
                         [stop_id        |-> pattern[k],
                          departure_time |-> PlusMinutes(start, run * (k - 1))]]]

\* A trip row as MakeTrip builds it, with arrival times: the train arrives
\* at each stop `dwell` minutes before it departs from it.
MakeTimedTrip(trip_id, route_id, direction_id, service_id, pattern, start, run, dwell) ==
    [trip_id      |-> trip_id,
     route_id     |-> route_id,
     direction_id |-> direction_id,
     service_id   |-> service_id,
     stop_times   |-> [k \in 1..Len(pattern) |->
                         [stop_id        |-> pattern[k],
                          arrival_time   |-> PlusMinutes(start, (run + dwell) * (k - 1)),
                          departure_time |-> PlusMinutes(start, (run + dwell) * (k - 1) + dwell)]]]

\* The stops table of the headway schedules.
HeadwayStops ==
    [s \in {"S1", "S2", "S3"} |->
        [stop_name |-> IF s = "S1" THEN <<"A","l","f","a">>
                       ELSE IF s = "S2" THEN <<"H","u","b">>
                       ELSE <<"B","e","t","a">>,
         parent_station |-> None]]

\* First-stop departure times of the headway schedules: before and after
\* midnight of the same service day.
HeadwayStartTimes == {<<23, 30, 0>>, <<23, 50, 0>>, <<25, 15, 0>>}

\* Route X runs S1 -> S2 in 10 minutes, route Y runs S3 -> S2 in 20 minutes:
\* the two routes share the stop S2.
HeadwayTrip(trip_id, route_id, start) ==
    IF route_id = "X"
    THEN MakeTrip(trip_id, "X", 0, "Weekday", <<"S1", "S2">>, start, 10)
    ELSE MakeTrip(trip_id, "Y", 0, "Weekday", <<"S3", "S2">>, start, 20)

HeadwayFeeds ==
    {[trips |-> [i \in 1..MaxTrips |-> HeadwayTrip(i, routes[i], starts[i])],
      stops |-> HeadwayStops] :
        routes \in [1..MaxTrips -> {"X", "Y"}], starts \in [1..MaxTrips -> HeadwayStartTimes]}

NoCall == [op |-> "none"]

InitHeadway ==
    /\ feed \in HeadwayFeeds
    /\ call = NoCall
    /\ result = [kind |-> "none"]

-----------------------------------------------------------------------------
(* Actions: one per analysis entry point.  The engine is synchronous and   *)
(* single-threaded per analysis: a call is made when no call is pending    *)
(* (Idle), runs to completion in one step, and Return hands the result to   *)
(* the caller, after which the next call can be made.                      *)

\* No call is pending: before the first call, or after a Return.
Idle == call.op \in {"none", "returned"}

\* (direction_id, service_id, stop_id) arguments of the single-route calls
HeadwayFilters == {<<NoDirection, None, None>>, <<0, "Weekday", None>>, <<0, "Weekday", "S2">>}

CallLineHeadways ==
    /\ Idle
    /\ \E route_id \in {"X", "Y", "Z"}, flt \in HeadwayFilters, exclude_first_last \in BOOLEAN :
        /\ call' = [op |-> "get_line_headways_by_hour_improved", route_ids |-> <<route_id>>,
                    direction_id |-> flt[1], service_id |-> flt[2], stop_id |-> flt[3],
                    exclude_first_last |-> exclude_first_last]
        /\ result' = get_line_headways_by_hour_improved(feed, route_id, flt[1], flt[2], flt[3], exclude_first_last)
    /\ UNCHANGED feed

CallCombinedHeadwaysByHour ==
    /\ Idle
    /\ \E route_ids \in {<<"X", "Y">>, <<"Z">>}, stop_id \in {None, "S2"}, exclude_first_last \in BOOLEAN :
        /\ call' = [op |-> "get_combined_headways_by_hour", route_ids |-> route_ids,
                    direction_id |-> 0, service_id |-> "Weekday", stop_id |-> stop_id,
                    exclude_first_last |-> exclude_first_last]
        /\ result' = get_combined_headways_by_hour(feed, route_ids, 0, "Weekday", stop_id, exclude_first_last)
    /\ UNCHANGED feed

\* get_headway_dist, its arguments (route_ids, stop_id) drawn from Args
CallHeadwayDist(Args) ==
    /\ Idle
    /\ \E a \in Args, exclude_first_last \in BOOLEAN :
        /\ call' = [op |-> "get_headway_dist", route_ids |-> a[1],
                    direction_id |-> 0, service_id |-> "Weekday", stop_id |-> a[2],
                    exclude_first_last |-> exclude_first_last]
        /\ result' = get_headway_dist(feed, 0, a[1], "Weekday", a[2], exclude_first_last)
    /\ UNCHANGED feed

CallIndividualAndCombined ==
    /\ Idle
    /\ \E route_ids \in {<<"X", "Y">>, <<"Y", "Z">>}, stop_id \in {None, "S2"}, exclude_first_last \in BOOLEAN :
        /\ call' = [op |-> "get_individual_and_combined_headways", route_ids |-> route_ids,
                    direction_id |-> 0, service_id |-> "Weekday", stop_id |-> stop_id,
                    exclude_first_last |-> exclude_first_last]
        /\ result' = get_individual_and_combined_headways(feed, route_ids, 0, "Weekday", stop_id, exclude_first_last)
    /\ UNCHANGED feed

\* get_headway_dist_combined, its arguments (route_specs, stop_id
\* and hour_range) drawn from Args
CallHeadwayDistCombined(Args) ==
    /\ Idle
    /\ \E a \in Args, exclude_first_last \in BOOLEAN :
        /\ call' = [op |-> "get_headway_dist_combined", route_specs |-> a[1],
                    direction_id |-> 0, service_id |-> "Weekday", stop_id |-> a[2],
                    hour_range |-> a[3], exclude_first_last |-> exclude_first_last]
        /\ result' = get_headway_dist_combined(feed, 0, a[1], "Weekday", a[2], a[3], exclude_first_last)
    /\ UNCHANGED feed

\* The caller takes the result; the next analysis can start.
Return ==
    /\ ~Idle
    /\ call' = [op |-> "returned"]
    /\ result' = [kind |-> "none"]
    /\ UNCHANGED feed

\* route_specs of the headway specification: plain route ids only
HeadwaySpecLists == {<<PlainSpec("X")>>, <<PlainSpec("X"), PlainSpec("Y")>>, <<PlainSpec("Z")>>}

\* hour_range arguments: None (<<>>) or an inclusive (start, end) pair
HeadwayHourRanges == {<<>>, <<23, 23>>, <<0, 1>>, <<1, 23>>}

HeadwayCombinedArgs ==
    (HeadwaySpecLists \X {None} \X HeadwayHourRanges)
    \cup ({<<PlainSpec("X"), PlainSpec("Y")>>} \X {"S2"} \X {<<>>, <<23, 23>>})

HeadwayDistArgs == {<<>>, <<"X">>, <<"X", "Y">>, <<"Z">>} \X {None, "S2"}

NextHeadway ==
    \/ CallLineHeadways
    \/ CallCombinedHeadwaysByHour
    \/ CallHeadwayDist(HeadwayDistArgs)
    \/ CallIndividualAndCombined
    \/ CallHeadwayDistCombined(HeadwayCombinedArgs)
    \/ Return

SpecHeadway == InitHeadway /\ [][NextHeadway]_vars

-----------------------------------------------------------------------------
(* The branch specification: one route whose trips end at two terminals.   *)

\* The stops table of the branch schedules.
BranchStops ==
    [s \in {"O1", "M1", "T1", "T2"} |->
        [stop_name |-> IF s = "O1" THEN <<"I","n","w">>
                       ELSE IF s = "M1" THEN <<"L","e","x">>
                       ELSE IF s = "T1" THEN <<"L","e","f">>
                       ELSE <<"F","a","r">>,
         parent_station |-> None]]

\* Stop patterns of route A: to the terminal T1, to the terminal T2, and a
\* short run starting at M1 that calls at T1 on its way to T2.
BranchPatterns == {<<"O1", "M1", "T1">>, <<"O1", "M1", "T2">>, <<"M1", "T1", "T2">>}

BranchStartTimes == {<<23, 30, 0>>, <<23, 40, 0>>, <<24, 0, 0>>}

BranchFeeds ==
    {[trips |-> [i \in 1..MaxBranchTrips |->
                    MakeTrip(i, "A", 0, "Weekday", patterns[i], starts[i], 10)],
      stops |-> BranchStops] :
        patterns \in [1..MaxBranchTrips -> BranchPatterns],
        starts \in [1..MaxBranchTrips -> BranchStartTimes]}

InitBranch ==
    /\ feed \in BranchFeeds
    /\ call = NoCall
    /\ result = [kind |-> "none"]

\* branch_terminal arguments: a terminal name in another case, a substring
\* of both terminal names, of a first-stop and a last-stop name, of a
\* first-stop name only, and of no name.
BranchTerminals ==
    {<<"L","E","F">>, <<"F">>, <<"l","e">>, <<"i","n">>, <<"N","o","S","u","c","h">>}

CallHeadwayDistBranch ==
    /\ Idle
    /\ \E route_id \in {"A", "Z"}, branch_terminal \in BranchTerminals,
          stop_id \in {None, "M1"}, exclude_first_last \in BOOLEAN :
        /\ call' = [op |-> "get_headway_dist_branch", route_ids |-> <<route_id>>,
                    direction_id |-> 0, service_id |-> "Weekday",
                    branch_terminal |-> branch_terminal, stop_id |-> stop_id,
                    exclude_first_last |-> exclude_first_last]
        /\ result' = get_headway_dist_branch(feed, route_id, 0, branch_terminal, "Weekday",
                                             stop_id, exclude_first_last)
    /\ UNCHANGED feed

BranchDistArgs == {<<"A">>} \X {None, "M1"}

\* route_specs of the branch specification
BranchSpecLists ==
    {<<PlainSpec("A")>>,
     <<BranchSpec("A", <<"L","E","F">>)>>,
     <<BranchSpec("A", <<"L","E","F">>), BranchSpec("A", <<"f","a","r">>)>>,
     <<PlainSpec("A"), BranchSpec("A", <<"N","o","S","u","c","h">>)>>,
     <<BranchSpec("A", <<"N","o","S","u","c","h">>), BranchSpec("A", <<"f","a","r">>)>>}

BranchCombinedArgs == BranchSpecLists \X {None} \X {<<>>, <<23, 23>>}

NextBranch ==
    \/ CallHeadwayDistBranch
    \/ CallHeadwayDist(BranchDistArgs)
    \/ CallHeadwayDistCombined(BranchCombinedArgs)
    \/ Return

SpecBranch == InitBranch /\ [][NextBranch]_vars

-----------------------------------------------------------------------------
(* The terminal specification: the route of the branch specification with  *)
(* one frequent stop pattern and single trips of other patterns.           *)

\* Stop patterns of route A: the patterns of the branch schedules, a short
\* run from M1 that skips T1, and a short run from M1 to T1.
TerminalPatterns ==
    <<<<"O1", "M1", "T1">>, <<"O1", "M1", "T2">>, <<"M1", "T1", "T2">>,
      <<"M1", "T2">>, <<"M1", "T1">>>>

\* How many trips run each pattern: none, one, or MaxBlockTrips for at most
\* one frequent pattern.
TerminalTripCounts ==
    {c \in [1..Len(TerminalPatterns) -> {0, 1, MaxBlockTrips}] :
        /\ \E k \in DOMAIN c : c[k] > 0
        /\ \A j, k \in DOMAIN c : c[j] = MaxBlockTrips /\ c[k] = MaxBlockTrips => j = k}

\* The pattern of the i-th trip when the trips are listed pattern by pattern.
PatternOfTrip(c, i) ==
    LET upto(k) == SumSeq([j \in 1..k |-> c[j]])
    IN  TerminalPatterns[CHOOSE k \in DOMAIN c : upto(k - 1) < i /\ i <= upto(k)]

TerminalFeeds ==
    {[trips |-> [i \in 1..SumSeq(c) |->
                    MakeTrip(i, "A", 0, "Weekday", PatternOfTrip(c, i),
                             PlusMinutes(<<6, 0, 0>>, 2 * i), 10)],
      stops |-> BranchStops] :
        c \in TerminalTripCounts}

InitTerminal ==
    /\ feed \in TerminalFeeds
    /\ call = NoCall
    /\ result = [kind |-> "none"]

\* get_headway_dist_branch for a substring of a first-stop and a last-stop
\* name, of both terminal names, and of a first-stop name only.
CallHeadwayDistOfTerminal ==
    /\ Idle
    /\ \E branch_terminal \in {<<"l","e">>, <<"F">>, <<"i","n">>},
          stop_id \in {None, "M1"}, exclude_first_last \in BOOLEAN :
        /\ call' = [op |-> "get_headway_dist_branch", route_ids |-> <<"A">>,
                    direction_id |-> 0, service_id |-> "Weekday",
                    branch_terminal |-> branch_terminal, stop_id |-> stop_id,
                    exclude_first_last |-> exclude_first_last]
        /\ result' = get_headway_dist_branch(feed, "A", 0, branch_terminal, "Weekday",
                                             stop_id, exclude_first_last)
    /\ UNCHANGED feed

NextTerminal ==
    \/ CallHeadwayDistOfTerminal
    \/ Return

SpecTerminal == InitTerminal /\ [][NextTerminal]_vars

-----------------------------------------------------------------------------
(* The station-order specification: one route with local, express and      *)
(* short-turn trips to up to three terminals.                              *)

\* The stops table of the station-order schedules: five stations, and the
\* two platforms BN and BS of station B.
OrderStops ==
    [s \in {"A", "B", "BN", "BS", "C", "D", "E"} |->
        [stop_name |-> IF s = "BN" THEN <<"B", "N">> ELSE IF s = "BS" THEN <<"B", "S">> ELSE <<s>>,
         parent_station |-> IF s \in {"BN", "BS"} THEN "B" ELSE None]]

\* Stop patterns of route A: local and express trips to D and to E (the
\* locals call at different platforms of B), a trip that calls at both
\* platforms of B, a short run from C to E, and a short turn at B.
OrderPatterns ==
    {<<"A", "BN", "C", "D">>, <<"A", "C", "D">>, <<"A", "BS", "C", "E">>, <<"A", "C", "E">>,
     <<"A", "BN", "BS", "C", "D">>, <<"C", "E">>, <<"A", "BN">>}

OrderFeeds ==
    {[trips |-> [i \in 1..MaxOrderTrips |->
                    MakeTrip(i, "A", 0, "Weekday", patterns[i], <<8, 0, 0>>, 5)],
      stops |-> OrderStops] :
        patterns \in [1..MaxOrderTrips -> OrderPatterns]}

InitOrder ==
    /\ feed \in OrderFeeds
    /\ call = NoCall
    /\ result = [kind |-> "none"]

\* The orders value_counts can list the terminals of a triple in.
TerminalOrders(f, route_id, direction_id, service_id) ==
    LET terminals == LastStops(f, TripsOfTriple(f, route_id, direction_id, service_id))
    IN  ValueCountsOrders([i \in 1..Len(terminals) |-> terminals[i].stop_id])

\* The orders value_counts can list the terminals of a route and direction
\* in, trips of every service counted.
RouteTerminalOrders(f, route_id, direction_id) ==
    LET terminals == LastStops(f, TripsOfRoute(f, route_id, direction_id, None))
    IN  ValueCountsOrders([i \in 1..Len(terminals) |-> terminals[i].stop_id])

CallIdentifyBranches ==
    /\ Idle
    /\ \E route_id \in {"A", "Z"} :
        \E terminal_order \in TerminalOrders(feed, route_id, 0, "Weekday") :
            /\ call' = [op |-> "identify_branches", route_id |-> route_id,
                        direction_id |-> 0, service_id |-> "Weekday",
                        terminal_order |-> terminal_order]
            /\ result' = [kind |-> "tuple",
                          value |-> identify_branches(feed, route_id, 0, "Weekday", terminal_order)]
    /\ UNCHANGED feed

CallGetStationOrder ==
    /\ Idle
    /\ \E route_id \in {"A", "Z"} :
        \E terminal_order \in TerminalOrders(feed, route_id, 0, "Weekday") :
            /\ call' = [op |-> "get_station_order", route_id |-> route_id,
                        direction_id |-> 0, service_id |-> "Weekday",
                        terminal_order |-> terminal_order]
            /\ result' = [kind |-> "list",
                          value |-> get_station_order(feed, route_id, 0, "Weekday", terminal_order)]
    /\ UNCHANGED feed

NextOrder ==
    \/ CallIdentifyBranches
    \/ CallGetStationOrder
    \/ Return

SpecOrder == InitOrder /\ [][NextOrder]_vars

-----------------------------------------------------------------------------
(* The two-direction specification: the route of the station-order         *)
(* specification run in both directions.                                   *)

\* Trips of route A by direction: direction 0 runs from A to D or to E,
\* local, express or as a short run from C; direction 1 runs back to A
\* from D or from E, local (at the other platform of B) or express.
BidirectionalPatterns ==
    {[direction_id |-> 0, pattern |-> <<"A", "BN", "C", "D">>],
     [direction_id |-> 0, pattern |-> <<"A", "C", "E">>],
     [direction_id |-> 0, pattern |-> <<"C", "E">>],
     [direction_id |-> 1, pattern |-> <<"D", "C", "BS", "A">>],
     [direction_id |-> 1, pattern |-> <<"D", "C", "A">>],
     [direction_id |-> 1, pattern |-> <<"E", "C", "A">>],
     [direction_id |-> 1, pattern |-> <<"D", "A">>]}

BidirectionalFeeds ==
    {[trips |-> [i \in 1..MaxBidirectionalTrips |->
                    MakeTrip(i, "A", patterns[i].direction_id, "Weekday",
                             patterns[i].pattern, <<8, 0, 0>>, 5)],
      stops |-> OrderStops] :
        patterns \in [1..MaxBidirectionalTrips -> BidirectionalPatterns]}

InitBidirectional ==
    /\ feed \in BidirectionalFeeds
    /\ call = NoCall
    /\ result = [kind |-> "none"]

CallGetBidirectionalStationOrder ==
    /\ Idle
    /\ \E route_id \in {"A", "Z"} :
        \E terminal_order0 \in TerminalOrders(feed, route_id, 0, "Weekday"),
           terminal_order1 \in TerminalOrders(feed, route_id, 1, "Weekday") :
            /\ call' = [op |-> "get_bidirectional_station_order", route_id |-> route_id,
                        service_id |-> "Weekday",
                        terminal_order0 |-> terminal_order0,
                        terminal_order1 |-> terminal_order1]
            /\ result' = [kind |-> "list",
                          value |-> get_bidirectional_station_order(feed, route_id, "Weekday",
                                        terminal_order0, terminal_order1)]
    /\ UNCHANGED feed

NextBidirectional ==
    \/ CallGetBidirectionalStationOrder
    \/ Return

SpecBidirectional == InitBidirectional /\ [][NextBidirectional]_vars

-----------------------------------------------------------------------------
(* The express specification: one route through two boroughs, with local,  *)
(* express and short trips to two terminals.                               *)

\* The stops table of the express schedules, each stop with the borough
\* its coordinates lie in; X1 lies in no borough polygon.
ExpressStops ==
    [s \in {"M1", "M2", "M3", "K1", "K2", "X1"} |->
        [stop_name |-> <<s>>,
         parent_station |-> None,
         borough |-> IF s \in {"M1", "M2", "M3"} THEN "Manhattan"
                     ELSE IF s \in {"K1", "K2"} THEN "Brooklyn"
                     ELSE None]]

\* Stop patterns of route A: the local, the Manhattan express, a short run
\* from M3, a Brooklyn-only run, and a local and an express to X1.
ExpressPatterns ==
    {<<"M1", "M2", "M3", "K1", "K2">>, <<"M1", "M3", "K1", "K2">>, <<"M3", "K1", "K2">>,
     <<"K1", "K2">>, <<"M1", "M2", "M3", "X1">>, <<"M1", "M3", "X1">>}

\* First-stop arrival times: before and after midnight of the service day.
ExpressStartTimes == {<<23, 50, 0>>, <<24, 10, 0>>}

\* Odd-numbered trips start at one of the times and even-numbered trips at
\* one of them, so trip_id order and departure order can agree or differ.
ExpressFeeds ==
    {[trips |-> [i \in 1..MaxExpressTrips |->
                    MakeTimedTrip(i, "A", 0, "Weekday", patterns[i],
                                  IF i % 2 = 1 THEN odd ELSE even, 4, 1)],
      stops |-> ExpressStops] :
        patterns \in [1..MaxExpressTrips -> ExpressPatterns],
        odd \in ExpressStartTimes, even \in ExpressStartTimes}

InitExpress ==
    /\ feed \in ExpressFeeds
    /\ call = NoCall
    /\ result = [kind |-> "none"]

\* classify_trip_express_local for a trip of the schedule against the
\* reference pattern of the route or of one of its branches.
CallClassifyTrip ==
    /\ Idle
    /\ \E i \in 1..Len(feed.trips) :
        \E branch_terminal \in {None} \cup {feed.trips[j].stop_times[Len(feed.trips[j].stop_times)].stop_id
                                              : j \in 1..Len(feed.trips)} :
            LET reference_stop_pattern ==
                    get_reference_stop_pattern(feed, "A", 0, branch_terminal)
            IN  /\ call' = [op |-> "classify_trip_express_local",
                            trip_id |-> feed.trips[i].trip_id,
                            reference_stop_pattern |-> reference_stop_pattern]
                /\ result' = [kind |-> "dict",
                              value |-> classify_trip_express_local(feed, feed.trips[i].trip_id,
                                            reference_stop_pattern, StopBoroughMap(feed))]
    /\ UNCHANGED feed

CallExpressServiceTimes ==
    /\ Idle
    /\ \E route_id \in {"A", "Z"}, service_id \in {None, "Weekday"},
          borough \in {None, "Manhattan", "Brooklyn", "Queens"} :
        \E terminal_order \in TerminalOrders(feed, route_id, 0, "Weekday") :
            /\ call' = [op |-> "get_express_service_times", route_id |-> route_id,
                        direction_id |-> 0, service_id |-> service_id, borough |-> borough,
                        terminal_order |-> terminal_order]
            /\ result' = get_express_service_times(feed, route_id, 0, service_id, borough,
                                                   terminal_order)
    /\ UNCHANGED feed

NextExpress ==
    \/ CallClassifyTrip
    \/ CallExpressServiceTimes
    \/ Return

SpecExpress == InitExpress /\ [][NextExpress]_vars

-----------------------------------------------------------------------------
(* Travel time matrices of a line served in both directions.               *)

\* Stations M1, M2 (Manhattan), K1 (Brooklyn) and X1 (in no borough); M2N
\* and M2S are the platforms of M2.
MatrixStops ==
    [s \in {"M1", "M2", "M2N", "M2S", "K1", "X1"} |->
        [stop_name |-> <<s>>,
         parent_station |-> IF s \in {"M2N", "M2S"} THEN "M2" ELSE None,
         borough |-> IF s \in {"M1", "M2", "M2N", "M2S"} THEN "Manhattan"
                     ELSE IF s = "K1" THEN "Brooklyn"
                     ELSE None]]

\* A trip is a local or an express (skipping M2) in direction 0, M1 to X1,
\* or in direction 1, X1 to M1.
MatrixPatterns ==
    {[direction_id |-> 0, pattern |-> <<"M1", "M2N", "K1", "X1">>],
     [direction_id |-> 0, pattern |-> <<"M1", "K1", "X1">>],
     [direction_id |-> 1, pattern |-> <<"X1", "K1", "M2S", "M1">>],
     [direction_id |-> 1, pattern |-> <<"X1", "K1", "M1">>]}

\* First-stop arrival times: a trip that starts at 23:50 runs past midnight.
MatrixStartTimes == {<<23, 50, 0>>, <<24, 10, 0>>}

\* Minutes between stops: direction 1 is slower than direction 0.
MatrixRun(direction_id) == IF direction_id = 0 THEN 4 ELSE 6

\* Odd-numbered trips start at one of the times and even-numbered trips at
\* one of them.
MatrixFeeds ==
    {[trips |-> [i \in 1..MaxMatrixTrips |->
                    MakeTimedTrip(i, "A", kinds[i].direction_id, "Weekday", kinds[i].pattern,
                                  IF i % 2 = 1 THEN odd ELSE even,
                                  MatrixRun(kinds[i].direction_id), 1)],
      stops |-> MatrixStops] :
        kinds \in [1..MaxMatrixTrips -> MatrixPatterns],
        odd \in MatrixStartTimes, even \in MatrixStartTimes}

InitMatrix ==
    /\ feed \in MatrixFeeds
    /\ call = NoCall
    /\ result = [kind |-> "none"]

\* A station order over stops: the (stop_id, stop_name) pairs.
OrderOver(stop_ids) == [k \in 1..Len(stop_ids) |-> <<stop_ids[k], <<stop_ids[k]>>>>]

\* The station orders get_station_order returns for a direction of these
\* schedules: the stations of the local or of the express in running order,
\* or the empty list when the direction has no trip.
StationOrders ==
    {OrderOver(<<"M1", "M2", "K1", "X1">>), OrderOver(<<"M1", "K1", "X1">>),
     OrderOver(<<"X1", "K1", "M2", "M1">>), OrderOver(<<"X1", "K1", "M1">>), <<>>}

\* The station orders the bidirectional matrix is asked for: those of the
\* two directions, and what is left of them when Manhattan is reduced to
\* its express stops of direction 0.
CanonicalOrders(f) ==
    StationOrders \cup
    {filter_station_order_express(f, station_order, "A", 0, "Weekday", <<"Manhattan">>, <<>>,
                                  terminal_order) :
        station_order \in StationOrders,
        terminal_order \in RouteTerminalOrders(f, "A", 0)}

\* The hour arguments: 23, 0, and the range (0, 23).
MatrixHours == {<<23>>, <<0>>, <<0, 23>>}

CallFilterStationOrder ==
    /\ Idle
    /\ \E station_order \in StationOrders, direction_id \in {0, 1},
          express_boroughs \in {<<>>, <<"Manhattan">>, <<"Manhattan", "Brooklyn">>},
          all_stops_boroughs \in {<<>>, <<"Brooklyn">>, <<"Manhattan">>} :
        \E terminal_order \in RouteTerminalOrders(feed, "A", direction_id) :
            /\ call' = [op |-> "filter_station_order_express", station_order |-> station_order,
                        route_id |-> "A", direction_id |-> direction_id,
                        service_id |-> "Weekday", express_boroughs |-> express_boroughs,
                        all_stops_boroughs |-> all_stops_boroughs]
            /\ result' = [kind |-> "list",
                          value |-> filter_station_order_express(feed, station_order, "A",
                                        direction_id, "Weekday", express_boroughs,
                                        all_stops_boroughs, terminal_order)]
    /\ UNCHANGED feed

CallTravelTimeMatrix ==
    /\ Idle
    /\ \E direction_id \in {0, 1},
          canonical_station_order \in {NoOrder} \cup StationOrders :
        \E terminal_order \in TerminalOrders(feed, "A", direction_id, "Weekday") :
            /\ call' = [op |-> "calculate_travel_time_matrix", route_id |-> "A",
                        direction_id |-> direction_id, service_id |-> "Weekday",
                        canonical_station_order |-> canonical_station_order,
                        terminal_order |-> terminal_order]
            /\ result' = [kind |-> "DataFrame",
                          value |-> calculate_travel_time_matrix(feed, "A", direction_id,
                                        "Weekday", canonical_station_order, terminal_order)]
    /\ UNCHANGED feed

CallTravelTimeMatrixByHour ==
    /\ Idle
    /\ \E direction_id \in {0, 1}, hour \in MatrixHours,
          canonical_station_order \in {NoOrder} \cup StationOrders :
        \E terminal_order \in TerminalOrders(feed, "A", direction_id, "Weekday") :
            /\ call' = [op |-> "calculate_travel_time_matrix_by_hour", route_id |-> "A",
                        direction_id |-> direction_id, hour |-> hour,
                        service_id |-> "Weekday",
                        canonical_station_order |-> canonical_station_order,
                        terminal_order |-> terminal_order]
            /\ result' = [kind |-> "DataFrame",
                          value |-> calculate_travel_time_matrix_by_hour(feed, "A",
                                        direction_id, hour, "Weekday",
                                        canonical_station_order, terminal_order)]
    /\ UNCHANGED feed

\* combine_bidirectional_matrix on two matrices built over one station
\* order, each of all trips or of an hour: the first of direction 0, the
\* second of either direction.
CallCombine ==
    /\ Idle
    /\ \E canonical_station_order \in StationOrders, direction_id \in {0, 1},
          hour0 \in {<<>>, <<0>>}, hour1 \in {<<>>, <<0>>} :
        \E matrix \in {[d \in {0, 1}, hour \in {<<>>, <<0>>} |->
                            DirectionMatrix(feed, "A", d, "Weekday",
                                            canonical_station_order, hour)]} :
            /\ call' = [op |-> "combine_bidirectional_matrix",
                        matrix_dir0 |-> matrix[0, hour0],
                        matrix_dir1 |-> matrix[direction_id, hour1]]
            /\ result' = [kind |-> "DataFrame",
                          value |-> combine_bidirectional_matrix(matrix[0, hour0],
                                                                 matrix[direction_id, hour1])]
    /\ UNCHANGED feed

CallDisplay ==
    /\ Idle
    /\ \E canonical_station_order \in CanonicalOrders(feed), hour \in {<<>>} \cup MatrixHours :
        /\ call' = [op |-> "display_bidirectional_matrix", route_id |-> "A",
                    service_id |-> "Weekday",
                    canonical_station_order |-> canonical_station_order, hour |-> hour]
        /\ result' = [kind |-> "DataFrame",
                      value |-> display_bidirectional_matrix(feed, "A", "Weekday",
                                    canonical_station_order, hour)]
    /\ UNCHANGED feed

NextMatrix ==
    \/ CallFilterStationOrder
    \/ CallTravelTimeMatrix
    \/ CallTravelTimeMatrixByHour
    \/ CallCombine
    \/ CallDisplay
    \/ Return

SpecMatrix == InitMatrix /\ [][NextMatrix]_vars

-----------------------------------------------------------------------------
(* Properties of the headway engine.                                       *)

\* The Python loop indices whose gap the call in progress records, given n
\* sorted departures.
RecordedBy(n) ==
    {i \in 1..(n - 1) : ~(call.exclude_first_last /\ (i = 1 \/ i = n - 1))}

\* The gap in minutes between the i-th and the (i+1)-th row of deps, on
\* un-normalized clock times.
GapAfter(deps, i) ==
    ((deps[i + 1].departure_time[1] * 60 + deps[i + 1].departure_time[2])
     - (deps[i].departure_time[1] * 60 + deps[i].departure_time[2]))

\* The call in progress is a chronological headway computation that found at
\* least two departures.
ChronologicalCall ==
    /\ call.op \in {"get_line_headways_by_hour_improved", "get_combined_headways_by_hour"}
    /\ Len(result.departures) >= 2

\* C1: in get_line_headways_by_hour_improved and get_combined_headways_by_hour
\* the departures are ordered by un-normalized seconds, so a departure at hour
\* 24 or later (25:15:00) comes after every 23:xx:xx departure, and each
\* recorded gap is filed under the hour of the earlier departure modulo 24.
C1_ChronologicalBuckets ==
    ChronologicalCall =>
        LET deps == result.departures
            n == Len(deps)
            total(i) == deps[i].departure_time[1] * 3600 + deps[i].departure_time[2] * 60
                        + deps[i].departure_time[3]
            bucket(i) == deps[i].departure_time[1] % 24
        IN  /\ \A i, j \in 1..n : total(i) < total(j) => i < j
            /\ \A i, j \in 1..n :
                  deps[i].departure_time[1] = 23 /\ deps[j].departure_time[1] >= 24 => i < j
            /\ DOMAIN result.headways = {bucket(i) : i \in RecordedBy(n)}
            /\ \A h \in DOMAIN result.headways :
                  /\ Len(result.headways[h]) = Cardinality({i \in RecordedBy(n) : bucket(i) = h})
                  /\ \A i \in RecordedBy(n) : bucket(i) = h =>
                        \E k \in 1..Len(result.headways[h]) : result.headways[h][k] = GapAfter(deps, i)

\* A 25:15:00 departure follows a 23:xx:xx departure and is itself the earlier
\* train of a recorded gap, which is filed under hour 1.
C1_Witness ==
    /\ ChronologicalCall
    /\ \E i \in 2..(Len(result.departures) - 1) :
          /\ i \in RecordedBy(Len(result.departures))
          /\ result.departures[i].departure_time = <<25, 15, 0>>
          /\ result.departures[i - 1].departure_time[1] = 23
    /\ 1 \in DOMAIN result.headways
    /\ 23 \in DOMAIN result.headways

-----------------------------------------------------------------------------
(* The departures a call is about, read off the schedule tables.           *)

\* All (trip row, stop_sequence position) pairs of the schedule.
StopTimePositions ==
    UNION {{<<i, k>> : k \in 1..Len(feed.trips[i].stop_times)} : i \in 1..Len(feed.trips)}

\* The clock time of a position, and its un-normalized minute count.
TimeAt(p) == feed.trips[p[1]].stop_times[p[2]].departure_time

MinutesAt(p) == TimeAt(p)[1] * 60 + TimeAt(p)[2]

\* The positions that qualify as departures of the call in progress for the
\* given routes: the trip is of one of the routes and passes the direction
\* and service filters, the position is the measured stop (the first stop
\* when stop_id is None), and its hour lies in hour_range when one is given.
QualifyingOf(routes) ==
    {p \in StopTimePositions :
        /\ feed.trips[p[1]].route_id \in routes
        /\ call.direction_id = NoDirection \/ feed.trips[p[1]].direction_id = call.direction_id
        /\ call.service_id = None \/ feed.trips[p[1]].service_id = call.service_id
        /\ IF call.stop_id = None THEN p[2] = 1
           ELSE feed.trips[p[1]].stop_times[p[2]].stop_id = call.stop_id
        /\ (call.op = "get_headway_dist_combined" /\ Len(call.hour_range) = 2) =>
              /\ TimeAt(p)[1] % 24 >= call.hour_range[1]
              /\ TimeAt(p)[1] % 24 <= call.hour_range[2]}

\* The routes the call in progress lists.
CallRoutes ==
    IF call.op = "get_headway_dist_combined"
    THEN {call.route_specs[i].route_id : i \in 1..Len(call.route_specs)}
    ELSE Range(call.route_ids)

Qualifying == QualifyingOf(CallRoutes)

\* Every gap of a headways_by_hour dict satisfies P.
AllGapsEqual(headways_by_hour, d) ==
    \A h \in DOMAIN headways_by_hour :
        \A k \in 1..Len(headways_by_hour[h]) : headways_by_hour[h][k] = d

\* The number of gaps of a headways_by_hour dict.
GapCount(headways_by_hour) ==
    SumSeq([k \in 1..Cardinality(DOMAIN headways_by_hour) |->
               Len(headways_by_hour[KthSmallest(DOMAIN headways_by_hour, k)])])

\* C2 (as claimed): an entry point that finds fewer than two qualifying
\* departures for a non-empty route list returns an empty result and raises
\* no error.
C2_NoErrorOnInsufficientData ==
    (/\ call.op \in {"get_line_headways_by_hour_improved", "get_headway_dist",
                     "get_individual_and_combined_headways", "get_headway_dist_combined"}
     /\ CallRoutes # {}
     /\ Cardinality(Qualifying) < 2)
    => result.kind # "ValueError"

\* Route X runs every 20 minutes and route Y every 20 minutes, 10 minutes
\* after X, at the measured stop.
Interleaved ==
    LET x == QualifyingOf({"X"})
        y == QualifyingOf({"Y"})
        mx == {MinutesAt(p) : p \in x}
        my == {MinutesAt(p) : p \in y}
    IN  /\ call.route_ids = <<"X", "Y">>
        /\ Cardinality(x) >= 2 /\ Cardinality(y) >= 2
        /\ Cardinality(mx) = Cardinality(x) /\ Cardinality(my) = Cardinality(y)
        /\ Cardinality(y) \in {Cardinality(x), Cardinality(x) - 1}
        /\ \E a \in mx :
              /\ mx = {a + 20 * k : k \in 0..(Cardinality(x) - 1)}
              /\ my = {a + 10 + 20 * k : k \in 0..(Cardinality(y) - 1)}

\* C3: the combined headway is computed over the chronologically sorted
\* union of the departures of all listed routes; with X every 20 minutes and
\* Y every 20 minutes offset by 10 at the same stop every combined gap is 10
\* minutes and every gap of a route alone is 20 minutes.
C3_CombinedUnion ==
    /\ (call.op = "get_combined_headways_by_hour" /\ result.kind = "tuple") =>
          /\ {result.departures[i].trip_id : i \in 1..Len(result.departures)}
                = {feed.trips[p[1]].trip_id : p \in Qualifying}
          /\ Len(result.departures) = Cardinality(Qualifying)
          /\ \A i \in 1..(Len(result.departures) - 1) : GapAfter(result.departures, i) >= 0
          /\ Interleaved => AllGapsEqual(result.headways, 10)
    /\ (call.op = "get_individual_and_combined_headways" /\ result.kind = "dict" /\ Interleaved) =>
          /\ AllGapsEqual(result.combined, 10)
          /\ AllGapsEqual(result.individual[1], 20)
          /\ AllGapsEqual(result.individual[2], 20)
          /\ ~call.exclude_first_last =>
                /\ GapCount(result.combined) = Cardinality(Qualifying) - 1
                /\ GapCount(result.individual[1]) = Cardinality(QualifyingOf({"X"})) - 1
                /\ GapCount(result.individual[2]) = Cardinality(QualifyingOf({"Y"})) - 1

\* Two X and two Y trains interleave at the shared stop: the combined gaps
\* are 10 minutes and each route alone has a 20-minute gap.
C3_Witness ==
    /\ call.op = "get_individual_and_combined_headways"
    /\ result.kind = "dict"
    /\ Interleaved
    /\ ~call.exclude_first_last
    /\ GapCount(result.combined) >= 3
    /\ GapCount(result.individual[1]) >= 1
    /\ GapCount(result.individual[2]) >= 1

\* The headways_by_hour dict the call in progress would have returned with
\* the given exclude_first_last and otherwise the same arguments.
HeadwaysWith(exclude_first_last) ==
    IF call.op = "get_line_headways_by_hour_improved"
    THEN get_line_headways_by_hour_improved(feed, call.route_ids[1], call.direction_id,
             call.service_id, call.stop_id, exclude_first_last).headways
    ELSE get_combined_headways_by_hour(feed, call.route_ids, call.direction_id,
             call.service_id, call.stop_id, exclude_first_last).headways

\* The gaps of hour h in a headways_by_hour dict (none when h is no key).
GapsOfHour(headways_by_hour, h) ==
    IF h \in DOMAIN headways_by_hour THEN headways_by_hour[h] ELSE <<>>

\* A sequence without its first / without its last element.
DropFirst(s) == SubSeq(s, 2, Len(s))

DropLast(s) == SubSeq(s, 1, Len(s) - 1)

\* All consecutive departures are d minutes apart.
EvenlySpaced(deps, d) ==
    \A i \in 1..(Len(deps) - 1) : GapAfter(deps, i) = d

\* The rows of a table that carry a headway all average, and have minimum
\* and maximum, d.
AllRowsAverage(rows, d) ==
    \A k \in 1..Len(rows) :
        rows[k].avg_headway[2] # 0 =>
            /\ rows[k].avg_headway[1] = d * rows[k].avg_headway[2]
            /\ rows[k].min_headway = d
            /\ rows[k].max_headway = d

\* The number of gaps behind the averages of a table, and their sum.
RowGapCount(rows) == SumSeq([k \in 1..Len(rows) |-> rows[k].avg_headway[2]])

RowGapSum(rows) == SumSeq([k \in 1..Len(rows) |-> rows[k].avg_headway[1]])

\* C4: with at least three departures, exclude_first_last=true records the
\* gaps recorded without the option minus exactly two, the chronologically
\* first gap and the chronologically last gap (N-1 gaps without, N-3 with);
\* when the departures are evenly spaced D minutes apart every recorded gap
\* is D and every populated hour of a table averages D.
C4_ExcludeFirstLast ==
    /\ (/\ call.op \in {"get_line_headways_by_hour_improved", "get_combined_headways_by_hour"}
        /\ call.exclude_first_last
        /\ Len(result.departures) >= 3) =>
          LET n == Len(result.departures)
              without == HeadwaysWith(FALSE)
              first == HourOfDay(result.departures[1].departure_time)
              last == HourOfDay(result.departures[n - 1].departure_time)
              Expected(h) ==
                  LET a == GapsOfHour(without, h)
                      b == IF h = first THEN DropFirst(a) ELSE a
                  IN  IF h = last THEN DropLast(b) ELSE b
          IN  /\ GapCount(without) = n - 1
              /\ GapCount(result.headways) = n - 3
              /\ \A h \in 0..23 : GapsOfHour(result.headways, h) = Expected(h)
    /\ (/\ call.op \in {"get_line_headways_by_hour_improved", "get_combined_headways_by_hour"}
        /\ Len(result.departures) >= 2) =>
          \A d \in 0..120 :
              EvenlySpaced(result.departures, d) => AllGapsEqual(result.headways, d)
    /\ (/\ call.op \in {"get_headway_dist", "get_headway_dist_combined"}
        /\ result.kind = "DataFrame") =>
          /\ \A d \in 0..120 :
                EvenlySpaced(result.departures, d) => AllRowsAverage(result.rows, d)
          /\ Len(result.departures) >= 3 =>
                RowGapCount(result.rows) =
                    IF call.exclude_first_last THEN Len(result.departures) - 3
                    ELSE Len(result.departures) - 1

\* Four departures 10 minutes apart measured with exclude_first_last: only
\* the middle gap is recorded, and it is 10 minutes.
C4_Witness ==
    /\ call.op = "get_combined_headways_by_hour"
    /\ call.exclude_first_last
    /\ Len(result.departures) = 4
    /\ EvenlySpaced(result.departures, 10)
    /\ GapCount(result.headways) = 1
    /\ GapCount(HeadwaysWith(FALSE)) = 3

\* C8: get_headway_dist_combined with hour_range = (s, e) returns exactly
\* one row per hour s..e in order, and only the departures whose hour of day
\* lies in [s, e] contribute to the train counts and to the gaps; without
\* hour_range it returns exactly the 24 rows of hours 0..23.
C8_HourRange ==
    (call.op = "get_headway_dist_combined" /\ result.kind = "DataFrame") =>
        LET rows == result.rows
            n == Cardinality(Qualifying)
            minutes == {MinutesAt(p) : p \in Qualifying}
        IN  /\ IF Len(call.hour_range) = 2
               THEN /\ Len(rows) = call.hour_range[2] - call.hour_range[1] + 1
                    /\ \A k \in 1..Len(rows) : rows[k].hour = call.hour_range[1] + k - 1
               ELSE /\ Len(rows) = 24
                    /\ \A k \in 1..Len(rows) : rows[k].hour = k - 1
            /\ \A k \in 1..Len(rows) :
                  rows[k].num_trains =
                      Cardinality({p \in Qualifying : TimeAt(p)[1] % 24 = rows[k].hour})
            /\ Len(result.departures) = n
            /\ RowGapCount(rows) = Cardinality(RecordedBy(n))
            /\ (n >= 2 /\ ~call.exclude_first_last) =>
                  RowGapSum(rows) = MaxSeq(SetToSortedSeq(minutes)) - MinSeq(SetToSortedSeq(minutes))

\* A table for the single hour 23 of a schedule that also has a departure
\* in hour 1: one row, whose gaps are those between the hour-23 departures.
C8_Witness ==
    /\ call.op = "get_headway_dist_combined"
    /\ result.kind = "DataFrame"
    /\ call.hour_range = <<23, 23>>
    /\ ~call.exclude_first_last
    /\ Len(result.rows) = 1
    /\ result.rows[1].avg_headway[2] >= 1
    /\ \E p \in StopTimePositions :
          /\ feed.trips[p[1]].route_id \in CallRoutes
          /\ TimeAt(p)[1] % 24 = 1
          /\ IF call.stop_id = None THEN p[2] = 1
             ELSE feed.trips[p[1]].stop_times[p[2]].stop_id = call.stop_id

-----------------------------------------------------------------------------
(* Properties of the branch headways.                                      *)

\* The trip rows of a (route, direction, service) triple of the call in
\* progress, as positions in the trips table.
TripleTrips(route_id) ==
    {i \in 1..Len(feed.trips) :
        /\ feed.trips[i].route_id = route_id
        /\ feed.trips[i].direction_id = call.direction_id
        /\ feed.trips[i].service_id = call.service_id}

\* The first and the last stop of a trip.
FirstStopOf(i) == feed.trips[i].stop_times[1].stop_id

LastStopOf(i) == feed.trips[i].stop_times[Len(feed.trips[i].stop_times)].stop_id

\* The name of stop s contains branch_terminal, letter case aside.
NameMatches(branch_terminal, s) ==
    /\ s \in DOMAIN feed.stops
    /\ IsSubstring(Lower(branch_terminal), Lower(feed.stops[s].stop_name))

\* The trip ids of a sorted departure table.
DepartureTripIds(deps) == {deps[i].trip_id : i \in 1..Len(deps)}

\* C5 (as claimed): in every headway table num_trains of an hour is the
\* number of contributing trains departing in that hour, whatever gaps were
\* recorded in it.
C5_NumTrainsCountsDepartures ==
    (/\ call.op \in {"get_headway_dist", "get_headway_dist_combined", "get_headway_dist_branch"}
     /\ result.kind = "DataFrame") =>
        \A k \in 1..Len(result.rows) :
            result.rows[k].num_trains =
                Cardinality({i \in 1..Len(result.departures) :
                    HourOfDay(result.departures[i].departure_time) = result.rows[k].hour})

\* C6: get_headway_dist_branch matches branch_terminal as a case-insensitive
\* substring of the terminal names.  When it matches a last-stop name and no
\* first-stop name, the table is computed from exactly the trips of the
\* triple that end at the matched terminal; when it matches no first-stop or
\* last-stop name, the call raises the no-matching-stop ValueError, whose
\* message lists the names of the real terminals of the triple.
C6_BranchTerminalMatch ==
    (call.op = "get_headway_dist_branch" /\ TripleTrips(call.route_ids[1]) # {}) =>
        LET trips == TripleTrips(call.route_ids[1])
            at_first == {i \in trips : NameMatches(call.branch_terminal, FirstStopOf(i))}
            at_last == {i \in trips : NameMatches(call.branch_terminal, LastStopOf(i))}
            n == Len(result.departures)
        IN  /\ (at_first = {} /\ at_last # {}) =>
                  /\ result.kind = "DataFrame"
                  /\ result.branch_terminal_id \in {LastStopOf(i) : i \in at_last}
                  /\ result.branch_terminal = feed.stops[result.branch_terminal_id].stop_name
                  /\ DepartureTripIds(result.departures) =
                        {feed.trips[i].trip_id :
                            i \in {j \in trips : LastStopOf(j) = result.branch_terminal_id}}
                  /\ n = Cardinality(DepartureTripIds(result.departures))
                  /\ RowGapCount(result.rows) = Cardinality(RecordedBy(n))
                  /\ \A h \in 0..23 :
                        result.rows[h + 1].avg_headway[1] =
                            SumSeq(GapsOfHour(HeadwaysByHour(result.departures,
                                                             call.exclude_first_last), h))
            /\ (at_first = {} /\ at_last = {}) =>
                  /\ result.kind = "ValueError"
                  /\ result.message = "No stop matching"
                  /\ \A i \in trips :
                        Quote(feed.stops[LastStopOf(i)].stop_name) \in result.available
                  /\ result.available \subseteq
                        {Quote(feed.stops[s].stop_name) :
                            s \in {FirstStopOf(i) : i \in trips} \cup {LastStopOf(i) : i \in trips}}

\* "LEF" names the terminal "Lef" of a schedule in which one train ends
\* there and another calls there on its way to the other terminal: the
\* table is computed from the train ending there alone.
C6_Witness ==
    /\ call.op = "get_headway_dist_branch"
    /\ call.branch_terminal = <<"L","E","F">>
    /\ result.kind = "DataFrame"
    /\ result.branch_terminal_id = "T1"
    /\ \E i, j \in TripleTrips("A") :
          /\ LastStopOf(i) = "T1"
          /\ feed.trips[i].trip_id \in DepartureTripIds(result.departures)
          /\ LastStopOf(j) = "T2"
          /\ feed.trips[j].stop_times[2].stop_id = "T1"
          /\ feed.trips[j].trip_id \notin DepartureTripIds(result.departures)

\* A substring of no first-stop or last-stop name raises the error that
\* lists both terminals.
C6_WitnessNoMatch ==
    /\ call.op = "get_headway_dist_branch"
    /\ result.kind = "ValueError"
    /\ result.message = "No stop matching"
    /\ Quote(<<"L","e","f">>) \in result.available
    /\ Quote(<<"F","a","r">>) \in result.available

\* A spec of get_headway_dist_combined resolves: a route that has trips, or
\* a branch_terminal that matches a first-stop or last-stop name.
Resolves(spec) ==
    IF spec.is_tuple
    THEN \E i \in TripleTrips(spec.route_id) :
            \/ NameMatches(spec.branch_terminal, FirstStopOf(i))
            \/ NameMatches(spec.branch_terminal, LastStopOf(i))
    ELSE TripleTrips(spec.route_id) # {}

\* C7 (as claimed): a spec of a multi-spec combined request that fails to
\* resolve does not abort the request; the table is assembled from the specs
\* that did resolve.
C7_FailingSpecDoesNotAbort ==
    (/\ call.op = "get_headway_dist_combined"
     /\ Len(call.route_specs) >= 2
     /\ \E i \in 1..Len(call.route_specs) : Resolves(call.route_specs[i])
     /\ \E i \in 1..Len(call.route_specs) : ~Resolves(call.route_specs[i]))
    => result.kind = "DataFrame"

-----------------------------------------------------------------------------
(* Properties of the canonical station order.                              *)

\* The parent station of a stop, or the stop itself when it has none.
StationOf(s) ==
    IF feed.stops[s].parent_station # None THEN feed.stops[s].parent_station ELSE s

\* The stations a trip calls at, in the order it first reaches them.
StationsOfTrip(i) ==
    Unique([k \in 1..Len(feed.trips[i].stop_times) |->
               StationOf(feed.trips[i].stop_times[k].stop_id)])

\* The trip with the most stop-times among the given trips (the lowest
\* trip_id among equals).
ReferenceTrip(trips) ==
    CHOOSE i \in trips :
        \A j \in trips :
            \/ Len(feed.trips[j].stop_times) < Len(feed.trips[i].stop_times)
            \/ /\ Len(feed.trips[j].stop_times) = Len(feed.trips[i].stop_times)
               /\ feed.trips[i].trip_id <= feed.trips[j].trip_id

\* The stop ids of a station order.
OrderIds(order) == [i \in 1..Len(order) |-> order[i][1]]

\* get_station_order was called for a triple whose trips all end at one
\* terminal.
SingleTerminal ==
    /\ call.op = "get_station_order"
    /\ TripleTrips(call.route_id) # {}
    /\ Cardinality({LastStopOf(i) : i \in TripleTrips(call.route_id)}) = 1

\* C9: for a triple whose trips all end at one terminal, get_station_order
\* returns a list in which no stop id occurs twice and whose length is the
\* number of distinct parent-normalized stops of the trip with the most
\* stop-times: it is that trip's sequence of stations, each with its name.
C9_SingleTerminalOrder ==
    SingleTerminal =>
        LET order == result.value
            stations == StationsOfTrip(ReferenceTrip(TripleTrips(call.route_id)))
        IN  /\ \A i, j \in 1..Len(order) : order[i][1] = order[j][1] => i = j
            /\ Len(order) = Cardinality(Range(stations))
            /\ OrderIds(order) = stations
            /\ \A i \in 1..Len(order) : order[i][2] = feed.stops[order[i][1]].stop_name

\* The trip with the most stop-times calls at both platforms of station B:
\* five stop-times, four stations in the order.
C9_Witness ==
    /\ SingleTerminal
    /\ Len(feed.trips[ReferenceTrip(TripleTrips(call.route_id))].stop_times) = 5
    /\ OrderIds(result.value) = <<"A", "B", "C", "D">>
    /\ \E i \in TripleTrips(call.route_id) : Len(feed.trips[i].stop_times) = 3

\* The part of a station sequence up to and including station bp, and the
\* part after it (the whole sequence when bp is not on it).
UpToStation(stations, bp) ==
    SubSeq(stations, 1, CHOOSE k \in 1..Len(stations) : stations[k] = bp)

AfterStation(stations, bp) ==
    IF bp \in Range(stations)
    THEN SubSeq(stations, 1 + (CHOOSE k \in 1..Len(stations) : stations[k] = bp), Len(stations))
    ELSE stations

RECURSIVE TrunkThenBranches(_, _, _)
\* The order the claim describes: order, followed branch by branch by the
\* stations of the branch's longest trip that lie after bp and are not yet
\* listed.
TrunkThenBranches(branches_info, bp, order) ==
    IF branches_info = <<>> THEN order
    ELSE LET ref == ReferenceTrip({i \in TripleTrips(call.route_id) :
                                      LastStopOf(i) = Head(branches_info).terminal_id})
             exclusive == SelectSeq(AfterStation(StationsOfTrip(ref), bp),
                                    LAMBDA s : s \notin Range(order))
         IN  TrunkThenBranches(Tail(branches_info), bp, order \o exclusive)

\* What identify_branches returns for the call in progress.
CallBranches ==
    identify_branches(feed, call.route_id, call.direction_id, call.service_id,
                      call.terminal_order)

\* get_station_order was called for a triple with several terminals and a
\* defined branch point.
Branched ==
    /\ call.op = "get_station_order"
    /\ TripleTrips(call.route_id) # {}
    /\ CallBranches.branch_point # None

\* C10 (as claimed): for a triple with several terminals and a branch point
\* the order is the trunk up to and including the branch point, followed
\* branch by branch, in identify_branches order, by only the stops of each
\* branch's longest trip that lie after the branch point.
C10_TrunkThenBranches ==
    Branched =>
        LET bp == StationOf(CallBranches.branch_point)
            sample == CHOOSE i \in TripleTrips(call.route_id) :
                          \A j \in TripleTrips(call.route_id) :
                              feed.trips[i].trip_id <= feed.trips[j].trip_id
            trunk == UpToStation(StationsOfTrip(sample), bp)
        IN  OrderIds(result.value) = TrunkThenBranches(CallBranches.branches_info, bp, trunk)

\* identify_branches was called for a triple that has trips.
BranchesCall ==
    /\ call.op = "identify_branches"
    /\ TripleTrips(call.route_id) # {}

\* The trips of the triple that end at a terminal.
TripsEndingAt(terminal_id) ==
    {i \in TripleTrips(call.route_id) : LastStopOf(i) = terminal_id}

\* C11: identify_branches returns the branch descriptors by descending
\* trip_count and, among equal trip counts, by ascending stop_count;
\* trip_count is the number of trips of the triple ending at the terminal
\* and stop_count the number of stops of the longest trip ending there.
\* There is one descriptor per terminal when there are several terminals.
C11_BranchesSorted ==
    BranchesCall =>
        LET b == result.value.branches_info
            terminal_ids == {LastStopOf(i) : i \in TripleTrips(call.route_id)}
        IN  /\ \A i, j \in 1..Len(b) :
                  i < j => \/ b[i].trip_count > b[j].trip_count
                           \/ /\ b[i].trip_count = b[j].trip_count
                              /\ b[i].stop_count <= b[j].stop_count
            /\ \A i \in 1..Len(b) :
                  /\ b[i].terminal_id \in terminal_ids
                  /\ b[i].trip_count = Cardinality(TripsEndingAt(b[i].terminal_id))
                  /\ b[i].stop_count =
                        Len(feed.trips[ReferenceTrip(TripsEndingAt(b[i].terminal_id))].stop_times)
                  /\ \A j \in 1..Len(b) : b[i].terminal_id = b[j].terminal_id => i = j
            /\ Len(b) = IF Cardinality(terminal_ids) = 1 THEN 0 ELSE Cardinality(terminal_ids)

\* Three terminals with one trip each, listed by value_counts from the
\* longest trip to the shortest: the descriptors come out shortest first.
C11_Witness ==
    /\ BranchesCall
    /\ Len(result.value.branches_info) = 3
    /\ [i \in 1..3 |-> result.value.branches_info[i].stop_count] = <<2, 3, 4>>
    /\ call.terminal_order = <<result.value.branches_info[3].terminal_id,
                               result.value.branches_info[2].terminal_id,
                               result.value.branches_info[1].terminal_id>>

-----------------------------------------------------------------------------
(* Properties of the express classification.                               *)

\* The stops of the reference pattern of the call in progress that lie in
\* a region.
ReferenceStopsIn(region) ==
    {st \in Range(call.reference_stop_pattern) : feed.stops[st].borough = region}

\* The stops a trip calls at.
StopsOfTripId(trip_id) ==
    UNION {{feed.trips[i].stop_times[k].stop_id : k \in 1..Len(feed.trips[i].stop_times)} :
              i \in {j \in 1..Len(feed.trips) : feed.trips[j].trip_id = trip_id}}

\* C13: classify_trip_express_local gives, for each region with reference
\* stops R, of which the trip calls at T: no entry when T is empty; 'local'
\* when |T| = |R|; otherwise 'express' when |T| >= 2 and 'local' when
\* |T| = 1.  A region with no stop in the reference pattern has no entry.
C13_RegionClassification ==
    call.op = "classify_trip_express_local" =>
        /\ DOMAIN result.value \subseteq BoroughNames
        /\ \A region \in BoroughNames :
              LET R == ReferenceStopsIn(region)
                  T == R \cap StopsOfTripId(call.trip_id)
              IN  IF T = {} THEN region \notin DOMAIN result.value
                  ELSE /\ region \in DOMAIN result.value
                       /\ result.value[region] =
                             IF Cardinality(T) = Cardinality(R) THEN "local"
                             ELSE IF Cardinality(T) >= 2 THEN "express"
                             ELSE "local"

\* A trip that skips a Manhattan stop of the reference pattern and makes
\* every Brooklyn stop: express in Manhattan, local in Brooklyn.
C13_Witness ==
    /\ call.op = "classify_trip_express_local"
    /\ DOMAIN result.value = {"Manhattan", "Brooklyn"}
    /\ result.value["Manhattan"] = "express"
    /\ result.value["Brooklyn"] = "local"
    /\ Cardinality(ReferenceStopsIn("Manhattan") \cap StopsOfTripId(call.trip_id)) = 2
    /\ Cardinality(ReferenceStopsIn("Manhattan")) = 3

\* A trip that makes one of three Manhattan reference stops is local there;
\* a trip that makes none has no Manhattan entry.
C13_WitnessSingleStop ==
    /\ call.op = "classify_trip_express_local"
    /\ Cardinality(ReferenceStopsIn("Manhattan")) = 3
    /\ Cardinality(ReferenceStopsIn("Manhattan") \cap StopsOfTripId(call.trip_id)) = 1
    /\ result.value["Manhattan"] = "local"

\* The trips the classification table of the call in progress shows as
\* express in the requested region, or in any region when none is given.
ExpressTripIds ==
    LET patterns == analyze_route_express_patterns(feed, call.route_id, call.direction_id,
                                                   call.service_id, call.terminal_order)
    IN  {patterns[i].trip_id :
            i \in {j \in 1..Len(patterns) :
                      \E region \in DOMAIN patterns[j].classification :
                          /\ call.borough = None \/ region = call.borough
                          /\ patterns[j].classification[region] = "express"}}

\* The first-stop departure of a trip in un-normalized seconds.
FirstDepartureSeconds(trip_id) ==
    LET i == CHOOSE j \in 1..Len(feed.trips) : feed.trips[j].trip_id = trip_id
        t == feed.trips[i].stop_times[1].departure_time
    IN  t[1] * 3600 + t[2] * 60 + t[3]

C14_WitnessNoExpress ==
    /\ call.op = "get_express_service_times"
    /\ call.route_id = "A"
    /\ result.kind = "dict"
    /\ result.first_express = NoDict
    /\ result.last_express = NoDict

-----------------------------------------------------------------------------
(* Properties of the travel time matrices.                                 *)

\* The station a row or column label names.
StationNamed(label) == CHOOSE s \in DOMAIN feed.stops : feed.stops[s].stop_name = label

\* The names of a station order.
OrderNames(order) == [i \in 1..Len(order) |-> order[i][2]]

\* The trips of the route and service of the call in progress that run in
\* a direction, as positions in the trips table.
TripsOfDirection(direction_id) ==
    {i \in 1..Len(feed.trips) :
        /\ feed.trips[i].route_id = call.route_id
        /\ feed.trips[i].direction_id = direction_id
        /\ feed.trips[i].service_id = call.service_id}

\* The stop_sequence positions at which a trip calls at a station.
CallsAt(i, station) ==
    {k \in 1..Len(feed.trips[i].stop_times) :
        StationOf(feed.trips[i].stop_times[k].stop_id) = station}

\* The observations of the ordered pair (o, d) in a direction: a trip and
\* its positions at o and at d, the call at o before the call at d and the
\* departure from o in one of the hours.
Observations(direction_id, o, d, hours) ==
    UNION {{<<i, p[1], p[2]>> :
               p \in {q \in CallsAt(i, o) \X CallsAt(i, d) :
                          /\ q[1] < q[2]
                          /\ feed.trips[i].stop_times[q[1]].departure_time[1] % 24 \in hours}} :
              i \in TripsOfDirection(direction_id)}

\* A clock time in seconds; the hour is not reduced.
ClockSeconds(t) == t[1] * 3600 + t[2] * 60 + t[3]

\* Arrival at d minus departure at o, summed over observations.
RECURSIVE SumTravelSeconds(_)
SumTravelSeconds(obs) ==
    IF obs = {} THEN 0
    ELSE LET x == CHOOSE y \in obs : TRUE
         IN  ClockSeconds(feed.trips[x[1]].stop_times[x[3]].arrival_time)
             - ClockSeconds(feed.trips[x[1]].stop_times[x[2]].departure_time)
             + SumTravelSeconds(obs \ {x})

\* value is the mean over the observations in minutes, undefined for none.
IsMeanOf(value, obs) ==
    IF obs = {} THEN value[2] = 0
    ELSE /\ value[2] > 0
         /\ value[1] * 60 * Cardinality(obs) = SumTravelSeconds(obs) * value[2]

\* The station list of a matrix call: the one passed in, or the one of
\* get_station_order.
StationList ==
    IF call.canonical_station_order = NoOrder
    THEN get_station_order(feed, call.route_id, call.direction_id, call.service_id,
                           call.terminal_order)
    ELSE call.canonical_station_order

\* C15: the table of calculate_travel_time_matrix has the stations of the
\* station list as rows and as columns, and for every two distinct stations
\* o and d the cell at row d, column o is the mean over the trips of the
\* triple that call at o before d of arrival at d minus departure at o, in
\* minutes on un-normalized clock times; it is undefined when there is no
\* such trip.
C15_MeanTravelTime ==
    call.op = "calculate_travel_time_matrix" =>
        LET df == result.value
        IN  /\ df.index = OrderNames(StationList)
            /\ df.columns = OrderNames(StationList)
            /\ \A r \in 1..Len(df.index), c \in 1..Len(df.columns) :
                   df.index[r] # df.columns[c] =>
                       IsMeanOf(df.data[<<r, c>>],
                                Observations(call.direction_id, StationNamed(df.columns[c]),
                                             StationNamed(df.index[r]), 0..23))

\* A local and an express of direction 0, one of them running past midnight,
\* take 9 and 4 minutes from M1 to K1: the cell at row K1, column M1 is 6.5
\* and the cell at row M1, column K1 is undefined.
C15_Witness ==
    /\ call.op = "calculate_travel_time_matrix"
    /\ call.direction_id = 0
    /\ result.value.index = << <<"M1">>, <<"M2">>, <<"K1">>, <<"X1">> >>
    /\ result.value.data[<<3, 1>>] = <<13, 2>>
    /\ result.value.data[<<1, 3>>] = NaN
    /\ \E i \in TripsOfDirection(0) :
           /\ feed.trips[i].stop_times[1].departure_time[1] = 23
           /\ feed.trips[i].stop_times[Len(feed.trips[i].stop_times)].arrival_time[1] = 24

\* The cell of a table at a row label and a column label, undefined when the
\* table has no such row or column.
CellAt(df, row, column) ==
    IF row \in Range(df.index) /\ column \in Range(df.columns)
    THEN df.data[<<CHOOSE r \in 1..Len(df.index) : df.index[r] = row,
                   CHOOSE c \in 1..Len(df.columns) : df.columns[c] = column>>]
    ELSE NaN

\* combine_bidirectional_matrix was called with two non-empty matrices.
CombinedCall ==
    /\ call.op = "combine_bidirectional_matrix"
    /\ call.matrix_dir0.index # <<>>
    /\ call.matrix_dir1.index # <<>>

\* C16: combine_bidirectional_matrix of two non-empty matrices has the
\* stations of both as rows and columns; a cell is 0 on the diagonal and, off
\* the diagonal, the value of the base (first) matrix when that is defined,
\* otherwise the value of the second matrix, otherwise undefined.
C16_CombinedCells ==
    CombinedCall =>
        LET df == result.value
        IN  /\ Range(df.index) = Range(call.matrix_dir0.index) \cup Range(call.matrix_dir1.index)
            /\ df.columns = df.index
            /\ \A r \in 1..Len(df.index), c \in 1..Len(df.columns) :
                   LET base == CellAt(call.matrix_dir0, df.index[r], df.columns[c])
                       other == CellAt(call.matrix_dir1, df.index[r], df.columns[c])
                   IN  df.data[<<r, c>>] =
                           IF r = c THEN Zero
                           ELSE IF base[2] # 0 THEN base
                           ELSE other

\* The combined table keeps a base cell the second matrix has another value
\* for, takes a cell only the second matrix has, and has a cell neither has.
C16_Witness ==
    /\ CombinedCall
    /\ \E r \in 1..Len(result.value.index), c \in 1..Len(result.value.index) :
           LET base == CellAt(call.matrix_dir0, result.value.index[r], result.value.index[c])
               other == CellAt(call.matrix_dir1, result.value.index[r], result.value.index[c])
           IN  /\ r # c
               /\ base[2] # 0 /\ other[2] # 0 /\ base # other
               /\ result.value.data[<<r, c>>] = base
    /\ \E r \in 1..Len(result.value.index), c \in 1..Len(result.value.index) :
           /\ CellAt(call.matrix_dir0, result.value.index[r], result.value.index[c]) = NaN
           /\ result.value.data[<<r, c>>] # NaN
    /\ \E r \in 1..Len(result.value.index), c \in 1..Len(result.value.index) :
           result.value.data[<<r, c>>] = NaN

\* The two matrices have different stations: the table has those of the
\* base first, and the diagonal cell of a station only the second has is 0.
C16_WitnessReindex ==
    /\ CombinedCall
    /\ Range(call.matrix_dir1.index) \ Range(call.matrix_dir0.index) # {}
    /\ Range(call.matrix_dir0.index) \ Range(call.matrix_dir1.index) # {}
    /\ \A r \in 1..Len(result.value.index) : result.value.data[<<r, r>>] = Zero

\* The hours of day a by-hour call asks for.
RequestedHours ==
    IF Len(call.hour) = 2
    THEN {h \in 0..23 : call.hour[1] <= h /\ h <= call.hour[2]}
    ELSE {h \in 0..23 : h = call.hour[1]}

\* The stations of the station list that are the origin or the destination
\* of an observation counted by the by-hour call in progress.
CountedStations ==
    {s \in Range(OrderIds(StationList)) :
        \E t \in Range(OrderIds(StationList)) :
            \/ Observations(call.direction_id, s, t, RequestedHours) # {}
            \/ Observations(call.direction_id, t, s, RequestedHours) # {}}

\* C17: calculate_travel_time_matrix_by_hour counts the observation of a
\* pair (o, d) on a trip exactly when the hour of the departure from o,
\* modulo 24, is the requested hour or lies in the requested range, ends
\* included: each cell is the mean over these observations.  The rows and
\* columns are the stations of the station list that are origin or
\* destination of a counted observation, in the order of the list.
C17_HourWindow ==
    call.op = "calculate_travel_time_matrix_by_hour" =>
        LET df == result.value
        IN  /\ df.index = OrderNames(SelectSeq(StationList, LAMBDA s : s[1] \in CountedStations))
            /\ df.columns = df.index
            /\ \A r \in 1..Len(df.index), c \in 1..Len(df.columns) :
                   r # c =>
                       IsMeanOf(df.data[<<r, c>>],
                                Observations(call.direction_id, StationNamed(df.columns[c]),
                                             StationNamed(df.index[r]), RequestedHours))

\* Asked for hour 0, a direction 0 schedule whose trips leave M1 and M2
\* before midnight and K1 after it gives a table of K1 and X1 only.
C17_Witness ==
    /\ call.op = "calculate_travel_time_matrix_by_hour"
    /\ call.direction_id = 0
    /\ call.hour = <<0>>
    /\ OrderIds(StationList) = <<"M1", "M2", "K1", "X1">>
    /\ result.value.index = << <<"K1">>, <<"X1">> >>
    /\ result.value.data[<<2, 1>>] = <<4, 1>>
    /\ \E i \in TripsOfDirection(0) :
           /\ feed.trips[i].stop_times[1].departure_time[1] = 23
           /\ feed.trips[i].stop_times[3].departure_time[1] = 24

\* Asked for the range (0, 23), departures of hour 23 and of hour 0 count.
C17_WitnessRange ==
    /\ call.op = "calculate_travel_time_matrix_by_hour"
    /\ call.direction_id = 0
    /\ call.hour = <<0, 23>>
    /\ result.value.index = << <<"M1">>, <<"M2">>, <<"K1">>, <<"X1">> >>
    /\ \E i \in TripsOfDirection(0) :
           /\ feed.trips[i].stop_times[1].departure_time[1] = 23
           /\ feed.trips[i].stop_times[3].departure_time[1] = 24

\* C18 (as claimed): the row labels and the column labels of the table
\* display_bidirectional_matrix returns, with or without an hour window, are
\* names of stations of the canonical_station_order passed in and appear in
\* the order of that list.
C18_LabelsInCanonicalOrder ==
    call.op = "display_bidirectional_matrix" =>
        LET names == OrderNames(call.canonical_station_order)
            labels == result.value.index
        IN  /\ result.value.columns = labels
            /\ Range(labels) \subseteq Range(names)
            /\ labels = SelectSeq(names, LAMBDA name : name \in Range(labels))

\* The hours whose departures a display call counts: all without a window.
DisplayHours == IF call.hour = <<>> THEN 0..23 ELSE RequestedHours

\* The observations of a direction behind the cell at row r, column c of
\* the table of the display call in progress.
CellObservations(direction_id, r, c) ==
    Observations(direction_id, StationNamed(result.value.columns[c]),
                 StationNamed(result.value.index[r]), DisplayHours)

\* C19 (as claimed): in the table display_bidirectional_matrix returns,
\* every defined cell above the diagonal is a travel time of direction 0 and
\* every defined cell below the diagonal is a travel time of direction 1,
\* whichever direction the station order was taken from, and no cell off the
\* diagonal has travel times of both directions.
C19_TrianglesByDirection ==
    call.op = "display_bidirectional_matrix" =>
        \A r \in 1..Len(result.value.index), c \in 1..Len(result.value.columns) :
            (r # c /\ result.value.data[<<r, c>>][2] # 0) =>
                /\ r < c => /\ CellObservations(0, r, c) # {}
                            /\ IsMeanOf(result.value.data[<<r, c>>], CellObservations(0, r, c))
                /\ r > c => /\ CellObservations(1, r, c) # {}
                            /\ IsMeanOf(result.value.data[<<r, c>>], CellObservations(1, r, c))
                /\ CellObservations(0, r, c) = {} \/ CellObservations(1, r, c) = {}

\* The trips of the triple of the call in progress that call at a station.
TripsCallingAt(station) ==
    {i \in TripsOfDirection(call.direction_id) : CallsAt(i, station) # {}}

\* The region of a station, None when it lies in none.
RegionOf(station) == feed.stops[station].borough

\* At least half of the trips of the triple call at the station.
ServedByHalf(station) ==
    2 * Cardinality(TripsCallingAt(station)) >= Cardinality(TripsOfDirection(call.direction_id))

\* C20: filter_station_order_express with a non-empty express region list
\* keeps a stop of the input order exactly when its region is in the
\* all-stops list, or its region is in the express list and at least half of
\* the trips of the triple call at it, or its region is in neither list (a
\* stop in no region included); the kept stops stay in input order.
C20_ExpressFilter ==
    (call.op = "filter_station_order_express" /\ call.express_boroughs # <<>>) =>
        result.value =
            SelectSeq(call.station_order,
                      LAMBDA s :
                          \/ RegionOf(s[1]) \in Range(call.all_stops_boroughs)
                          \/ /\ RegionOf(s[1]) \in Range(call.express_boroughs)
                             /\ ServedByHalf(s[1])
                          \/ /\ RegionOf(s[1]) \notin Range(call.express_boroughs)
                             /\ RegionOf(s[1]) \notin Range(call.all_stops_boroughs))

\* With Manhattan as express region, M2, served by one trip of three, is
\* dropped; M1 stays, and so do K1 (Brooklyn, in neither list) and X1 (in no
\* region).
C20_Witness ==
    /\ call.op = "filter_station_order_express"
    /\ call.express_boroughs = <<"Manhattan">>
    /\ call.all_stops_boroughs = <<>>
    /\ OrderIds(call.station_order) = <<"M1", "M2", "K1", "X1">>
    /\ Cardinality(TripsOfDirection(call.direction_id)) = 3
    /\ Cardinality(TripsCallingAt("M2")) = 1
    /\ OrderIds(result.value) = <<"M1", "K1", "X1">>

\* M2 stays when one trip of two calls at it.
C20_WitnessHalf ==
    /\ call.op = "filter_station_order_express"
    /\ call.express_boroughs = <<"Manhattan">>
    /\ call.all_stops_boroughs = <<>>
    /\ Cardinality(TripsOfDirection(call.direction_id)) = 2
    /\ Cardinality(TripsCallingAt("M2")) = 1
    /\ "M2" \in Range(OrderIds(result.value))

-----------------------------------------------------------------------------
(* The service-day specification: one route with a weekday and a Saturday  *)
(* timetable, local and express trips to two terminals.                    *)

\* The stops table: the stops of the express schedules, M2 with its two
\* platforms M2N and M2S.
ServiceStops ==
    [s \in {"M1", "M2", "M2N", "M2S", "M3", "K1", "K2", "X1"} |->
        [stop_name |-> <<s>>,
         parent_station |-> IF s \in {"M2N", "M2S"} THEN "M2" ELSE None,
         borough |-> IF s \in {"M1", "M2", "M2N", "M2S", "M3"} THEN "Manhattan"
                     ELSE IF s \in {"K1", "K2"} THEN "Brooklyn"
                     ELSE None]]

\* Stop patterns of route A in direction 0: the local and the express to K2,
\* and the local and the express to X1; the local to X1 calls at both
\* platforms of M2.
ServicePatterns ==
    {<<"M1", "M2N", "M3", "K1", "K2">>, <<"M1", "M3", "K1", "K2">>,
     <<"M1", "M2N", "M2S", "M3", "X1">>, <<"M1", "M3", "X1">>}

ServiceIds == {"Weekday", "Saturday"}

ServiceFeeds ==
    {[trips |-> [i \in 1..MaxServiceTrips |->
                    MakeTimedTrip(i, "A", 0, services[i], patterns[i], <<8, 0, 0>>, 4, 1)],
      stops |-> ServiceStops] :
        patterns \in [1..MaxServiceTrips -> ServicePatterns],
        services \in [1..MaxServiceTrips -> ServiceIds]}

InitService ==
    /\ feed \in ServiceFeeds
    /\ call = NoCall
    /\ result = [kind |-> "none"]

CallStationOrderOfService ==
    /\ Idle
    /\ \E route_id \in {"A", "Z"}, service_id \in ServiceIds :
        \E terminal_order \in TerminalOrders(feed, route_id, 0, service_id) :
            /\ call' = [op |-> "get_station_order", route_id |-> route_id,
                        direction_id |-> 0, service_id |-> service_id,
                        terminal_order |-> terminal_order]
            /\ result' = [kind |-> "list",
                          value |-> get_station_order(feed, route_id, 0, service_id,
                                                      terminal_order)]
    /\ UNCHANGED feed

\* A mutant of CallAnalyzeRouteExpressPatterns: the service filter is
\* applied to the trips table of the schedule instead of a copy of it.
CallAnalyzeRouteExpressPatterns_InPlace ==
    /\ Idle
    /\ \E route_id \in {"A", "Z"}, service_id \in {None} \cup ServiceIds :
        \E terminal_order \in RouteTerminalOrders(feed, route_id, 0) :
            /\ call' = [op |-> "analyze_route_express_patterns", route_id |-> route_id,
                        direction_id |-> 0, service_id |-> service_id,
                        terminal_order |-> terminal_order]
            /\ result' = [kind |-> "DataFrame",
                          value |-> analyze_route_express_patterns(feed, route_id, 0,
                                        service_id, terminal_order)]
            /\ feed' = [feed EXCEPT !.trips = TripsOfRoute(feed, route_id, 0, service_id)]

CallAnalyzeRouteExpressPatterns ==
    /\ Idle
    /\ \E route_id \in {"A", "Z"}, service_id \in {None} \cup ServiceIds :
        \E terminal_order \in RouteTerminalOrders(feed, route_id, 0) :
            /\ call' = [op |-> "analyze_route_express_patterns", route_id |-> route_id,
                        direction_id |-> 0, service_id |-> service_id,
                        terminal_order |-> terminal_order]
            /\ result' = [kind |-> "DataFrame",
                          value |-> analyze_route_express_patterns(feed, route_id, 0,
                                        service_id, terminal_order)]
    /\ UNCHANGED feed

\* calculate_travel_time_matrix for one service, with the station order
\* left to the function or given by the caller.
CallMatrixOfService ==
    /\ Idle
    /\ \E route_id \in {"A", "Z"}, service_id \in ServiceIds,
          canonical_station_order \in {NoOrder, OrderOver(<<"M1", "M2", "M3">>)} :
        \E terminal_order \in TerminalOrders(feed, route_id, 0, service_id) :
            /\ call' = [op |-> "calculate_travel_time_matrix", route_id |-> route_id,
                        direction_id |-> 0, service_id |-> service_id,
                        canonical_station_order |-> canonical_station_order,
                        terminal_order |-> terminal_order]
            /\ result' = [kind |-> "DataFrame",
                          value |-> calculate_travel_time_matrix(feed, route_id, 0, service_id,
                                        canonical_station_order, terminal_order)]
    /\ UNCHANGED feed

\* get_express_service_times for one service or for all, in all boroughs or
\* in Manhattan.
CallServiceWindow ==
    /\ Idle
    /\ \E route_id \in {"A", "Z"}, service_id \in {None} \cup ServiceIds,
          borough \in {None, "Manhattan"} :
        \E terminal_order \in RouteTerminalOrders(feed, route_id, 0) :
            /\ call' = [op |-> "get_express_service_times", route_id |-> route_id,
                        direction_id |-> 0, service_id |-> service_id, borough |-> borough,
                        terminal_order |-> terminal_order]
            /\ result' = get_express_service_times(feed, route_id, 0, service_id, borough,
                                                   terminal_order)
    /\ UNCHANGED feed

NextService ==
    \/ CallStationOrderOfService
    \/ CallAnalyzeRouteExpressPatterns
    \/ CallMatrixOfService
    \/ CallServiceWindow
    \/ Return

SpecService == InitService /\ [][NextService]_vars

-----------------------------------------------------------------------------
(* skip_stop.py: the stations of the J and Z routes, and the skip-stop     *)
(* specification: a schedule of J and Z trips over four stops.             *)

\* max(j_stop_counts, key=j_stop_counts.get): the first trip, in table
\* order, among those with the most stop_times rows.
MaxJTrip(j_trips) ==
    LET k == CHOOSE k \in 1..Len(j_trips) :
                 /\ \A j \in 1..Len(j_trips) :
                        Len(j_trips[j].stop_times) <= Len(j_trips[k].stop_times)
                 /\ \A j \in 1..(k - 1) :
                        Len(j_trips[j].stop_times) < Len(j_trips[k].stop_times)
    IN  j_trips[k].trip_id

\* get_stop_names: the (stop_id, stop_name) pairs of the stops that have a
\* row in feed.stops.
get_stop_names(f, stop_id_list) ==
    FlattenSeq([k \in 1..Len(stop_id_list) |->
                   IF Len(StopNameValues(f, stop_id_list[k])) > 0
                   THEN <<<<stop_id_list[k], StopNameValues(f, stop_id_list[k])[1]>>>>
                   ELSE <<>>])

\* The three lists once j_stop_ids and z_stop_ids are known.
CategorizeStops(f, j_stop_ids, z_stop_ids) ==
    [j_only_stops |-> get_stop_names(f, SelectSeq(j_stop_ids, LAMBDA s : s \notin Range(z_stop_ids))),
     z_only_stops |-> get_stop_names(f, SelectSeq(z_stop_ids, LAMBDA s : s \notin Range(j_stop_ids))),
     shared_stops |-> get_stop_names(f, SelectSeq(j_stop_ids, LAMBDA s : s \in Range(z_stop_ids)))]

\* get_skip_stop_stations: the J stops are those of the J trip with the most
\* stops, the Z stops those of the first Z trip of the table.
get_skip_stop_stations(f, direction_id, service_id) ==
    LET j_trips == TripsOfTriple(f, "J", direction_id, service_id)
        z_trips == TripsOfTriple(f, "Z", direction_id, service_id)
    IN  IF j_trips = <<>>
        THEN [j_only_stops |-> <<>>, z_only_stops |-> <<>>, shared_stops |-> <<>>]
        ELSE CategorizeStops(f, TripStopIds(f, MaxJTrip(j_trips)),
                             IF Len(z_trips) > 0 THEN TripStopIds(f, z_trips[1].trip_id)
                             ELSE <<>>)

SkipStopStops ==
    [s \in {"S1", "S2", "S3", "S4"} |-> [stop_name |-> <<s>>, parent_station |-> None]]

\* Stop patterns: all stops, the two skip-stop patterns, and a short run.
SkipStopPatterns ==
    {<<"S1", "S2", "S3", "S4">>, <<"S1", "S3", "S4">>, <<"S1", "S2", "S4">>, <<"S1", "S2">>}

\* Every trip is a weekday trip of direction 1 of route J or of route Z.
SkipStopFeeds ==
    {[trips |-> [i \in 1..MaxSkipStopTrips |->
                    MakeTrip(i, routes[i], 1, "Weekday", patterns[i],
                             PlusMinutes(<<7, 0, 0>>, 5 * i), 2)],
      stops |-> SkipStopStops] :
        routes \in [1..MaxSkipStopTrips -> {"J", "Z"}],
        patterns \in [1..MaxSkipStopTrips -> SkipStopPatterns]}

InitSkipStop ==
    /\ feed \in SkipStopFeeds
    /\ call = NoCall
    /\ result = [kind |-> "none"]

CallGetSkipStopStations ==
    /\ Idle
    /\ \E direction_id \in {0, 1} :
        /\ call' = [op |-> "get_skip_stop_stations", direction_id |-> direction_id,
                    service_id |-> "Weekday"]
        /\ result' = [kind |-> "tuple",
                      value |-> get_skip_stop_stations(feed, direction_id, "Weekday")]
    /\ UNCHANGED feed

NextSkipStop ==
    \/ CallGetSkipStopStations
    \/ Return

SpecSkipStop == InitSkipStop /\ [][NextSkipStop]_vars

-----------------------------------------------------------------------------
(* Properties of the two-direction station order.                          *)

\* The station order of one direction for the call in progress.
DirectionOrder(direction_id) ==
    get_station_order(feed, call.route_id, direction_id, call.service_id,
                      IF direction_id = 0 THEN call.terminal_order0 ELSE call.terminal_order1)

\* The entries of `order` whose stop is in `ids`, in their order.
Restricted(order, ids) == SelectSeq(order, LAMBDA s : s[1] \in ids)

\* C21: get_bidirectional_station_order returns a list without repeated
\* stop; the stops of the direction-1 order are in it in their relative
\* order; every stop of the direction-0 order alone is in it, and one that
\* has a predecessor in the direction-0 order comes immediately after that
\* predecessor (the nearest one already in the list when it is inserted).
C21_BidirectionalOrder ==
    call.op = "get_bidirectional_station_order" =>
        LET order_dir0 == DirectionOrder(0)
            order_dir1 == DirectionOrder(1)
            ids == OrderIds(result.value)
            ids0 == OrderIds(order_dir0)
            ids1 == OrderIds(order_dir1)
        IN  /\ \A a, b \in 1..Len(ids) : ids[a] = ids[b] => a = b
            /\ Range(ids) = Range(ids0) \cup Range(ids1)
            /\ Restricted(result.value, Range(ids1)) = order_dir1
            /\ \A i \in 1..Len(ids0) :
                    ids0[i] \notin Range(ids1) =>
                        /\ order_dir0[i] \in Range(result.value)
                        /\ i > 1 => \E k \in 2..Len(ids) : /\ ids[k] = ids0[i]
                                                            /\ ids[k - 1] = ids0[i - 1]

\* E is on direction 0 alone and follows C there: it is placed after C,
\* before the last stop of the direction-1 order.
C21_Witness ==
    /\ call.op = "get_bidirectional_station_order"
    /\ OrderIds(DirectionOrder(0)) = <<"A", "C", "E">>
    /\ OrderIds(DirectionOrder(1)) = <<"D", "C", "B", "A">>
    /\ OrderIds(result.value) = <<"D", "C", "E", "B", "A">>

\* Two stops of direction 0 alone in a row: the second follows the first.
C21_WitnessChain ==
    /\ call.op = "get_bidirectional_station_order"
    /\ OrderIds(DirectionOrder(0)) = <<"A", "B", "C", "D">>
    /\ OrderIds(DirectionOrder(1)) = <<"D", "A">>
    /\ OrderIds(result.value) = <<"D", "A", "B", "C">>

-----------------------------------------------------------------------------
(* Properties of triples with no trip or one trip.                         *)

\* The trips of the (route, direction, service) triple of the call.
CallTrips == TripsOfRoute(feed, call.route_id, call.direction_id, call.service_id)

\* get_station_order returns the empty list for a triple without trips.
NoTripsStationOrder ==
    call.op = "get_station_order" /\ CallTrips = <<>> => result.value = <<>>

\* analyze_route_express_patterns returns the empty table for a triple
\* without trips.
NoTripsClassification ==
    call.op = "analyze_route_express_patterns" /\ CallTrips = <<>> => result.value = <<>>

\* calculate_travel_time_matrix returns the empty table for a triple
\* without trips.
NoTripsMatrix ==
    call.op = "calculate_travel_time_matrix" /\ CallTrips = <<>> => IsEmpty(result.value)

\* For a triple of one trip get_station_order returns the stations of the
\* trip, each once, in the order the trip first reaches them.
OneTripStationOrder ==
    call.op = "get_station_order" /\ Len(CallTrips) = 1 =>
        /\ OrderIds(result.value) = StationsOfTrip(CallTrips[1].trip_id)
        /\ \A i \in 1..Len(result.value) :
               result.value[i][2] = feed.stops[result.value[i][1]].stop_name

\* C22: when no trip matches the triple, get_station_order returns the
\* empty order, analyze_route_express_patterns the empty classification
\* table and calculate_travel_time_matrix the empty table; with exactly one
\* trip get_station_order returns that trip's deduplicated stop sequence.
C22_NoTripsEmpty ==
    /\ NoTripsStationOrder
    /\ NoTripsClassification
    /\ NoTripsMatrix
    /\ OneTripStationOrder

-----------------------------------------------------------------------------
(* Frame properties of the analyses.                                       *)

\* What the operation of the call in progress returns for the arguments of
\* the call on the schedule as it is now.
Repeated ==
    IF call.op = "get_station_order"
    THEN [kind |-> "list",
          value |-> get_station_order(feed, call.route_id, call.direction_id,
                                      call.service_id, call.terminal_order)]
    ELSE IF call.op = "analyze_route_express_patterns"
    THEN [kind |-> "DataFrame",
          value |-> analyze_route_express_patterns(feed, call.route_id, call.direction_id,
                                                   call.service_id, call.terminal_order)]
    ELSE IF call.op = "calculate_travel_time_matrix"
    THEN [kind |-> "DataFrame",
          value |-> calculate_travel_time_matrix(feed, call.route_id, call.direction_id,
                                                 call.service_id, call.canonical_station_order,
                                                 call.terminal_order)]
    ELSE IF call.op = "get_express_service_times"
    THEN get_express_service_times(feed, call.route_id, call.direction_id, call.service_id,
                                   call.borough, call.terminal_order)
    ELSE result

-----------------------------------------------------------------------------
(* Properties of the classification table.                                 *)

\* The terminal of a trip: the stop of its last stop-time.
TerminalOf(trip_id) ==
    LET stop_ids == TripStopIds(feed, trip_id) IN stop_ids[Len(stop_ids)]

\* The trips of the triple of the call run to more than one terminal.
BranchedTriple == Cardinality({TerminalOf(id) : id \in TripIdsOf(CallTrips)}) > 1

\* The reference pattern of a trip within the triple of the call: the stops
\* of the trip with the most stop-times among the trips of the triple to
\* the same terminal, or among all trips of the triple when they run to a
\* single terminal.
ReferenceInTriple(trip_id) ==
    TripStopIds(feed, MaxStopsTrip(feed, {id \in TripIdsOf(CallTrips) :
                                             BranchedTriple => TerminalOf(id) = TerminalOf(trip_id)}))

\* C24: for a request on (route, direction, service), every trip of the
\* classification table is classified against the stop sequence of a trip
\* with the most stops among the trips of that triple that end at its
\* terminal (among all trips of the triple when the route is unbranched):
\* trips of other services take no part.
C24_ReferenceOfService ==
    call.op = "analyze_route_express_patterns" /\ call.service_id # None =>
        \A i \in 1..Len(result.value) :
            result.value[i].classification =
                classify_trip_express_local(feed, result.value[i].trip_id,
                                            ReferenceInTriple(result.value[i].trip_id),
                                            StopBoroughMap(feed))

\* The trips of the route and direction of the call, of any service, that
\* the reference pattern of a row of the table is chosen among: those to
\* the branch terminal of the row, or all of them when the row has none.
ReferenceCandidates(row) ==
    {id \in TripIdsOf(TripsOfRoute(feed, call.route_id, call.direction_id, None)) :
        row.branch_terminal # None => TerminalOf(id) = row.branch_terminal}

\* The trip whose stop sequence is the reference pattern of a row.
ReferenceTripOf(row) == MaxStopsTrip(feed, ReferenceCandidates(row))

\* The stops of a trip that lie in a region.
StopsInRegion(trip_id, region) ==
    {s \in Range(TripStopIds(feed, trip_id)) : feed.stops[s].borough = region}

\* C29: a trip of the classification table is 'express' in a region only
\* if its reference pattern has at least three stops in the region and the
\* trip calls at two or more of them but not at all; the trip whose stop
\* sequence is the reference pattern is 'local' in every region of its
\* pattern.
C29_ExpressOnlyWhenSkipping ==
    call.op = "analyze_route_express_patterns" =>
        \A i \in 1..Len(result.value) :
            LET row == result.value[i]
                reference == ReferenceTripOf(row)
            IN  /\ \A region \in DOMAIN row.classification :
                       row.classification[region] = "express" =>
                           LET made == StopsInRegion(reference, region)
                                           \cap StopsInRegion(row.trip_id, region)
                           IN  /\ Cardinality(StopsInRegion(reference, region)) >= 3
                               /\ Cardinality(made) >= 2
                               /\ Cardinality(made) < Cardinality(StopsInRegion(reference, region))
                /\ row.trip_id = reference =>
                       \A region \in {"Manhattan", "Brooklyn"} :
                           StopsInRegion(reference, region) # {} =>
                               /\ region \in DOMAIN row.classification
                               /\ row.classification[region] = "local"

\* The table holds the reference trip, local in both boroughs, and a trip
\* that is express in Manhattan.
C29_Witness ==
    /\ call.op = "analyze_route_express_patterns"
    /\ \E i, j \in 1..Len(result.value) :
           /\ result.value[i].trip_id = ReferenceTripOf(result.value[i])
           /\ result.value[i].classification = [Manhattan |-> "local", Brooklyn |-> "local"]
           /\ ReferenceTripOf(result.value[j]) = result.value[i].trip_id
           /\ result.value[j].classification = [Manhattan |-> "express", Brooklyn |-> "local"]

-----------------------------------------------------------------------------
(* Properties of the branch point.                                         *)

\* The terminals of the triple of the call, and the sample trip of a
\* branch: the first trip of the triple, by trip_id, that ends at the
\* terminal.
CallTerminals == {LastStopOf(i) : i \in TripleTrips(call.route_id)}

SampleTrip(terminal_id) ==
    CHOOSE i \in TripsEndingAt(terminal_id) :
        \A j \in TripsEndingAt(terminal_id) : feed.trips[i].trip_id <= feed.trips[j].trip_id

\* The stop ids of a trip of the table, in sequence.
StopIdsOf(i) == [k \in 1..Len(feed.trips[i].stop_times) |-> feed.trips[i].stop_times[k].stop_id]

\* The stops on the sample trip of every branch.
CommonToSamples ==
    {s \in DOMAIN feed.stops :
        \A terminal_id \in CallTerminals : s \in Range(StopIdsOf(SampleTrip(terminal_id)))}

\* The trip the branch point is read from: the first trip of the triple.
FirstTrip ==
    CHOOSE i \in TripleTrips(call.route_id) :
        \A j \in TripleTrips(call.route_id) : feed.trips[i].trip_id <= feed.trips[j].trip_id

\* The call is on a triple whose trips run to several terminals.
SeveralTerminals == Cardinality(CallTerminals) > 1

\* C25: a branch point returned by identify_branches is on the sample trip
\* of every branch, and no later stop of the trip it is read from is on all
\* of them; when no stop is on all sample trips the branch point is None,
\* and get_station_order lists only the stops of the branches: branch by
\* branch, the stations of the longest trip not yet listed.
C25_BranchPoint ==
    /\ call.op = "identify_branches" /\ SeveralTerminals =>
           LET bp == result.value.branch_point
               stop_ids == StopIdsOf(FirstTrip)
           IN  IF CommonToSamples = {} THEN bp = None
               ELSE /\ bp \in CommonToSamples
                    /\ \E k \in 1..Len(stop_ids) :
                           /\ stop_ids[k] = bp
                           /\ \A later \in (k + 1)..Len(stop_ids) :
                                  stop_ids[later] \notin CommonToSamples
    /\ call.op = "get_station_order" /\ SeveralTerminals /\ CommonToSamples = {} =>
           OrderIds(result.value) = TrunkThenBranches(CallBranches.branches_info, None, <<>>)

\* The branch point C is followed on the first trip by the terminal of its
\* branch alone.
C25_Witness ==
    /\ call.op = "identify_branches"
    /\ SeveralTerminals
    /\ result.value.branch_point = "C"
    /\ CommonToSamples = {"A", "C"}
    /\ Len(StopIdsOf(FirstTrip)) = 4

\* A short turn at B and a short run from C share no stop: no branch point,
\* and the order is the stops of the two branches.
C25_WitnessNoCommonStop ==
    /\ call.op = "get_station_order"
    /\ SeveralTerminals
    /\ CommonToSamples = {}
    /\ CallBranches.branch_point = None
    /\ Len(result.value) = 4

-----------------------------------------------------------------------------
(* Properties of the choice of the branch end.                             *)

\* The number of distinct stops among the stops `at` the trips of the call
\* start or end at, and the number of those at which at least 5% of the
\* trips do.
DistinctEnds(at) == Cardinality({at[i] : i \in TripleTrips("A")})

SignificantEnds(at) ==
    Cardinality({s \in {at[i] : i \in TripleTrips("A")} :
        20 * Cardinality({i \in TripleTrips("A") : at[i] = s})
            >= Cardinality(TripleTrips("A"))})

FirstStopsAt == [i \in 1..Len(feed.trips) |-> FirstStopOf(i)]

LastStopsAt == [i \in 1..Len(feed.trips) |-> LastStopOf(i)]

\* branch_terminal is a substring of a first-stop name and of a last-stop
\* name of the triple.
MatchesBothEnds ==
    /\ call.op = "get_headway_dist_branch"
    /\ \E i \in TripleTrips("A") : NameMatches(call.branch_terminal, FirstStopOf(i))
    /\ \E i \in TripleTrips("A") : NameMatches(call.branch_terminal, LastStopOf(i))

\* The ends the rule allows: the end with more significant terminals, on a
\* tie the end with fewer distinct terminals, either end when those are
\* equal too.
AllowedEnds ==
    IF SignificantEnds(FirstStopsAt) > SignificantEnds(LastStopsAt) THEN {"originates from"}
    ELSE IF SignificantEnds(LastStopsAt) > SignificantEnds(FirstStopsAt) THEN {"terminates at"}
    ELSE IF DistinctEnds(FirstStopsAt) < DistinctEnds(LastStopsAt) THEN {"originates from"}
    ELSE IF DistinctEnds(LastStopsAt) < DistinctEnds(FirstStopsAt) THEN {"terminates at"}
    ELSE {"originates from", "terminates at"}

\* The trips of the triple whose stop at the end named by `description` is
\* the terminal.
TripsOfBranch(description, terminal_id) ==
    {i \in TripleTrips("A") :
        (IF description = "originates from" THEN FirstStopOf(i) ELSE LastStopOf(i)) = terminal_id}

\* C26: when branch_terminal matches a first-stop and a last-stop name,
\* get_headway_dist_branch takes the end with more significant terminals
\* (terminals at which at least 5% of the trips of the triple start, or
\* end), on a tie the end with fewer distinct terminals; the terminal is a
\* matching stop of that end, and the table is computed from the trips
\* whose stop at that end is the terminal and from no other trip: all of
\* them that call at the stop of the departures.
C26_BranchEndChoice ==
    MatchesBothEnds /\ result.kind = "DataFrame" =>
        LET branch == TripsOfBranch(result.branch_end_description, result.branch_terminal_id)
            measured == {result.departures[k].stop_id : k \in 1..Len(result.departures)}
        IN  /\ result.branch_end_description \in AllowedEnds
            /\ NameMatches(call.branch_terminal, result.branch_terminal_id)
            /\ branch # {}
            /\ Cardinality(measured) = 1
            /\ DepartureTripIds(result.departures) =
                   {feed.trips[i].trip_id :
                       i \in {j \in branch : measured \subseteq Range(StopIdsOf(j))}}

\* Twenty trips from M1 to T1 and one from M1 to T2: one significant
\* terminal at each end, one distinct first stop against two last stops,
\* and the trips starting at M1 are taken.
C26_Witness ==
    /\ MatchesBothEnds
    /\ Len(feed.trips) = MaxBlockTrips + 1
    /\ SignificantEnds(FirstStopsAt) = 1
    /\ SignificantEnds(LastStopsAt) = 1
    /\ DistinctEnds(LastStopsAt) = 2
    /\ result.kind = "DataFrame"
    /\ result.branch_end_description = "originates from"
    /\ result.branch_terminal_id = "M1"

\* Two significant first stops against one significant last stop.
C26_WitnessMoreSignificant ==
    /\ MatchesBothEnds
    /\ SignificantEnds(FirstStopsAt) = 2
    /\ SignificantEnds(LastStopsAt) = 1
    /\ DistinctEnds(LastStopsAt) = 2
    /\ result.kind = "DataFrame"
    /\ result.branch_end_description = "originates from"

-----------------------------------------------------------------------------
(* Properties of the combination of matrices over different stations.      *)

\* The labels of a table that another table does not have, in their order.
ExclusiveStations(df, other) == SelectSeq(df.index, LAMBDA station : station \notin Range(other.index))

\* combine_bidirectional_matrix was called with two non-empty matrices that
\* do not have the same set of stations.
CombinedOverDifferentStations ==
    /\ CombinedCall
    /\ Range(call.matrix_dir0.index) # Range(call.matrix_dir1.index)

\* C27: when the two matrices do not have the same station set, the rows
\* and the columns of combine_bidirectional_matrix's result are the
\* stations of the base matrix in their order followed by the stations only
\* the other matrix has in its order, and a cell defined in either input has
\* the base value when the base defines it and the other value otherwise;
\* when one input is empty the result is the other input.
C27_CombinedOverUnion ==
    /\ CombinedOverDifferentStations =>
           LET df == result.value
           IN  /\ df.index = call.matrix_dir0.index
                                \o ExclusiveStations(call.matrix_dir1, call.matrix_dir0)
               /\ df.columns = df.index
               /\ \A row \in Range(df.index), column \in Range(df.index) :
                      LET base == CellAt(call.matrix_dir0, row, column)
                          other == CellAt(call.matrix_dir1, row, column)
                      IN  (base # NaN \/ other # NaN) =>
                              CellAt(df, row, column) = IF base # NaN THEN base ELSE other
    /\ call.op = "combine_bidirectional_matrix" /\ call.matrix_dir0.index = <<>> =>
           result.value = call.matrix_dir1
    /\ call.op = "combine_bidirectional_matrix" /\ call.matrix_dir1.index = <<>> =>
           result.value = call.matrix_dir0

\* Each matrix has a station the other lacks, the result lists the base
\* stations first, and a travel time between two stations of the other
\* matrix, one of them absent from the base, is in the result.
C27_Witness ==
    /\ CombinedOverDifferentStations
    /\ ExclusiveStations(call.matrix_dir0, call.matrix_dir1) # <<>>
    /\ ExclusiveStations(call.matrix_dir1, call.matrix_dir0) # <<>>
    /\ Len(result.value.index) > Len(call.matrix_dir0.index)
    /\ \E row \in Range(result.value.index), column \in Range(result.value.index) :
           /\ row # column
           /\ row \notin Range(call.matrix_dir0.index)
           /\ CellAt(call.matrix_dir1, row, column) # NaN
           /\ CellAt(result.value, row, column) = CellAt(call.matrix_dir1, row, column)

\* The base matrix is empty and the other is not: the result is the other.
C27_WitnessEmpty ==
    /\ call.op = "combine_bidirectional_matrix"
    /\ call.matrix_dir0.index = <<>>
    /\ call.matrix_dir1.index # <<>>
    /\ result.value = call.matrix_dir1

-----------------------------------------------------------------------------
(* Properties of the skip-stop stations.                                   *)

\* The stop-id sets of the trips of a route, in the direction and service of
\* the call, that no trip of the route exceeds in number of stops.
ReferenceStopSets(route_id) ==
    {Range(StopIdsOf(i)) : i \in {j \in TripleTrips(route_id) :
        \A other \in TripleTrips(route_id) : Len(StopIdsOf(other)) <= Len(StopIdsOf(j))}}

\* The stop ids of a list of (stop_id, stop_name) pairs.
ListedIds(stops) == {stops[k][1] : k \in 1..Len(stops)}

\* C28: get_skip_stop_stations partitions the stations by the stops of a
\* maximum-stop-count trip of each route: shared are the stops on both,
\* J-only the stops of the J reference not on the Z reference, Z-only the
\* converse; the lists are pairwise disjoint and J-only with shared is the
\* stop set of the J reference.
C28_SkipStopPartition ==
    call.op = "get_skip_stop_stations" /\ TripleTrips("J") # {} =>
        \E j_reference \in ReferenceStopSets("J"),
           z_reference \in (IF TripleTrips("Z") = {} THEN {{}} ELSE ReferenceStopSets("Z")) :
            /\ ListedIds(result.value.shared_stops) = j_reference \cap z_reference
            /\ ListedIds(result.value.j_only_stops) = j_reference \ z_reference
            /\ ListedIds(result.value.z_only_stops) = z_reference \ j_reference
            /\ ListedIds(result.value.j_only_stops) \cap ListedIds(result.value.shared_stops) = {}
            /\ ListedIds(result.value.z_only_stops) \cap ListedIds(result.value.shared_stops) = {}
            /\ ListedIds(result.value.j_only_stops) \cap ListedIds(result.value.z_only_stops) = {}
            /\ ListedIds(result.value.j_only_stops) \cup ListedIds(result.value.shared_stops)
                   = j_reference

-----------------------------------------------------------------------------
(* Properties of the two headway tables.                                   *)

\* The route specs of a list of plain route ids.
PlainSpecsOf(route_ids) == [i \in 1..Len(route_ids) |-> PlainSpec(route_ids[i])]

\* The route ids of a list of plain route specs.
RouteIdsOf(route_specs) == [i \in 1..Len(route_specs) |-> route_specs[i].route_id]

\* The table the other of the two functions returns for the arguments of
\* the call in progress.
OtherTable ==
    IF call.op = "get_headway_dist"
    THEN get_headway_dist_combined(feed, call.direction_id, PlainSpecsOf(call.route_ids),
                                   call.service_id, call.stop_id, <<>>, call.exclude_first_last)
    ELSE get_headway_dist(feed, call.direction_id, RouteIdsOf(call.route_specs),
                          call.service_id, call.stop_id, call.exclude_first_last)

\* A call of get_headway_dist, or of get_headway_dist_combined with plain
\* route ids and no hour_range, that returned a table computed from two
\* departures or more.
TableOfSeveralDepartures ==
    /\ \/ call.op = "get_headway_dist"
       \/ /\ call.op = "get_headway_dist_combined"
          /\ call.hour_range = <<>>
          /\ \A i \in 1..Len(call.route_specs) : ~call.route_specs[i].is_tuple
    /\ result.kind = "DataFrame"
    /\ Len(result.departures) >= 2

\* The rows of a table as (hour, num_trains, average, minimum, maximum).
TableRows(rows) ==
    [k \in 1..Len(rows) |-> <<rows[k].hour, rows[k].num_trains, rows[k].avg_headway,
                               rows[k].min_headway, rows[k].max_headway>>]

\* C30: for the same direction, service, stop and exclude_first_last and a
\* list of distinct plain route ids with two contributing departures or
\* more, get_headway_dist and get_headway_dist_combined without hour_range
\* return the same 24 rows: the same num_trains, average, minimum and
\* maximum headway for every hour.
C30_SameTable ==
    TableOfSeveralDepartures =>
        /\ OtherTable.kind = "DataFrame"
        /\ Len(result.rows) = 24
        /\ TableRows(OtherTable.rows) = TableRows(result.rows)

\* get_headway_dist of the routes X and Y at the shared stop, both routes
\* running, with a row of two trains or more and a defined average.
C30_Witness ==
    /\ TableOfSeveralDepartures
    /\ call.op = "get_headway_dist"
    /\ call.route_ids = <<"X", "Y">>
    /\ call.stop_id = "S2"
    /\ QualifyingOf({"X"}) # {}
    /\ QualifyingOf({"Y"}) # {}
    /\ \E k \in 1..24 : result.rows[k].num_trains >= 2 /\ result.rows[k].avg_headway[2] # 0
    /\ TableRows(OtherTable.rows) = TableRows(result.rows)

\* The same from the other side: get_headway_dist_combined of X and Y.
C30_WitnessCombined ==
    /\ TableOfSeveralDepartures
    /\ call.op = "get_headway_dist_combined"
    /\ Len(call.route_specs) = 2
    /\ \E k \in 1..24 : result.rows[k].num_trains >= 2 /\ result.rows[k].avg_headway[2] # 0
    /\ TableRows(OtherTable.rows) = TableRows(result.rows)

====
